---------------------------- MODULE Spec2Model ----------------------------
(***************************************************************************)
(* Model of the CSV cleaning and combination pipeline of                   *)
(* SRC/15_sr_ka_exp: csv_cleaner.py (row repair and validation, file and   *)
(* directory orchestration, the cleaning logger) and                       *)
(* csv_combine_validated.py (the combination step).                        *)
(*                                                                         *)
(* Cells are TLA+ strings, taken apart with Head, Tail, SubSeq and Len.    *)
(* The character "~" stands for a typographic dash glyph (U+2013 and its   *)
(* relatives in dash_chars), which the module's character set cannot       *)
(* spell.                                                                  *)
(***************************************************************************)
EXTENDS Integers, Sequences, FiniteSets, TLC

(***************************************************************************)
(* Bounds of the model.                                                    *)
(***************************************************************************)
\* longest financial cell drawn as input of clean_financial_value
MaxFinLen == 4

\* most files read in one run of the cleaner, over all its directories
MaxFiles == 2

\* most data rows (rows after the header) read in one run, over all its files
MaxRows == 2

\* most cells a drawn raw row has more, or fewer, than the schema
MaxExtra == 2

\* longest code cell drawn as input of pad_code
MaxCodeLen == 4

\* largest width drawn as input of pad_code
MaxWidth == 4

\* the empty or whitespace-only cells of a row drawn for _align_columns
MaxBlank == 3

\* how far from the target cell the rows drawn for _pull_enum_from_nearby
\* hold values
MaxReach == 3

(***************************************************************************)
(* Characters and Python string primitives.                                *)
(***************************************************************************)
Digits == {"0", "1", "2", "3", "4", "5", "6", "7", "8", "9"}

IsDigit(c) == c \in Digits

IsSpace(c) == c = " "

\* str.lower() on one character, for the letters that occur in headers,
\* enumeration values and the inputs of the model
LowerCh(c) ==
    CASE c = "A" -> "a" [] c = "B" -> "b" [] c = "C" -> "c" [] c = "D" -> "d"
      [] c = "E" -> "e" [] c = "F" -> "f" [] c = "G" -> "g" [] c = "H" -> "h"
      [] c = "I" -> "i" [] c = "J" -> "j" [] c = "K" -> "k" [] c = "L" -> "l"
      [] c = "M" -> "m" [] c = "N" -> "n" [] c = "O" -> "o" [] c = "P" -> "p"
      [] c = "Q" -> "q" [] c = "R" -> "r" [] c = "S" -> "s" [] c = "T" -> "t"
      [] c = "U" -> "u" [] c = "V" -> "v" [] c = "W" -> "w" [] c = "X" -> "x"
      [] c = "Y" -> "y" [] c = "Z" -> "z" [] OTHER -> c

\* str.upper() on one character
UpperCh(c) ==
    CASE c = "a" -> "A" [] c = "b" -> "B" [] c = "c" -> "C" [] c = "d" -> "D"
      [] c = "e" -> "E" [] c = "f" -> "F" [] c = "g" -> "G" [] c = "h" -> "H"
      [] c = "i" -> "I" [] c = "j" -> "J" [] c = "k" -> "K" [] c = "l" -> "L"
      [] c = "m" -> "M" [] c = "n" -> "N" [] c = "o" -> "O" [] c = "p" -> "P"
      [] c = "q" -> "Q" [] c = "r" -> "R" [] c = "s" -> "S" [] c = "t" -> "T"
      [] c = "u" -> "U" [] c = "v" -> "V" [] c = "w" -> "W" [] c = "x" -> "X"
      [] c = "y" -> "Y" [] c = "z" -> "Z" [] OTHER -> c

RECURSIVE Lower(_)
Lower(s) == IF s = "" THEN "" ELSE LowerCh(Head(s)) \o Lower(Tail(s))

RECURSIVE Upper(_)
Upper(s) == IF s = "" THEN "" ELSE UpperCh(Head(s)) \o Upper(Tail(s))

RECURSIVE LStrip(_)
LStrip(s) == IF s # "" /\ IsSpace(Head(s)) THEN LStrip(Tail(s)) ELSE s

RECURSIVE RStrip(_)
RStrip(s) ==
    IF s # "" /\ IsSpace(SubSeq(s, Len(s), Len(s)))
    THEN RStrip(SubSeq(s, 1, Len(s) - 1))
    ELSE s

\* str.strip()
Strip(s) == RStrip(LStrip(s))

\* the characters of s that are in the set keep, in order
RECURSIVE Keep(_, _)
Keep(s, keep) ==
    IF s = "" THEN ""
    ELSE (IF Head(s) \in keep THEN Head(s) ELSE "") \o Keep(Tail(s), keep)

\* the characters of s that are not in the set drop, in order
RECURSIVE Remove(_, _)
Remove(s, drop) ==
    IF s = "" THEN ""
    ELSE (IF Head(s) \in drop THEN "" ELSE Head(s)) \o Remove(Tail(s), drop)

\* str.count(c) for a single character c
RECURSIVE Count(_, _)
Count(s, c) ==
    IF s = "" THEN 0 ELSE (IF Head(s) = c THEN 1 ELSE 0) + Count(Tail(s), c)

\* every character of s is in the set cs
RECURSIVE AllIn(_, _)
AllIn(s, cs) == s = "" \/ (Head(s) \in cs /\ AllIn(Tail(s), cs))

\* str.find(c) for a single character c, as a 1-based position; 0 if absent
RECURSIVE Find(_, _)
Find(s, c) ==
    IF s = "" THEN 0
    ELSE IF Head(s) = c THEN 1
    ELSE (IF Find(Tail(s), c) = 0 THEN 0 ELSE 1 + Find(Tail(s), c))

\* sub in s
Contains(s, sub) ==
    \E i \in 1..(Len(s) - Len(sub) + 1) : SubSeq(s, i, i + Len(sub) - 1) = sub

\* s[i - 1:j] of Python: the characters at positions i..j that exist
Slice(s, i, j) ==
    LET a == IF i < 1 THEN 1 ELSE i
        b == IF j > Len(s) THEN Len(s) ELSE j
    IN  IF a > b THEN "" ELSE SubSeq(s, a, b)

\* str.isdigit()
IsDigitStr(s) == s # "" /\ AllIn(s, Digits)

\* str.zfill(width)
RECURSIVE ZFill(_, _)
ZFill(s, width) == IF Len(s) >= width THEN s ELSE ZFill("0" \o s, width)

\* NUMERIC_PATTERN.match(s): ^-?\d+(?:\.\d+)?$
NUMERIC_PATTERN(s) ==
    LET t == IF s # "" /\ Head(s) = "-" THEN Tail(s) ELSE s
        dot == Find(t, ".")
    IN  IF dot = 0 THEN IsDigitStr(t)
        ELSE /\ IsDigitStr(SubSeq(t, 1, dot - 1))
             /\ IsDigitStr(SubSeq(t, dot + 1, Len(t)))

(***************************************************************************)
(* Cleaning helpers.                                                       *)
(***************************************************************************)
\* the dash family of clean_financial_value ("~" is the typographic dash)
dash_chars == {"-", "~"}

pad_code_one_zero(value, width) ==
    IF value = "" THEN ""
    ELSE LET stripped == Strip(value)
             digits == Keep(stripped, Digits)
         IN  IF stripped = "..." THEN ""
             ELSE IF digits = "" THEN stripped
             ELSE IF Len(digits) >= width THEN digits
             ELSE "0" \o digits

pad_code_truncates(value, width) ==
    IF value = "" THEN ""
    ELSE LET stripped == Strip(value)
             digits == Keep(stripped, Digits)
         IN  IF stripped = "..." THEN ""
             ELSE IF digits = "" THEN stripped
             ELSE IF Len(digits) >= width THEN SubSeq(digits, 1, width)
             ELSE ZFill(digits, width)

pad_code(value, width) ==
    IF value = "" THEN ""
    ELSE LET stripped == Strip(value)
             digits == Keep(stripped, Digits)
         IN  IF stripped = "..." THEN ""
             ELSE IF digits = "" THEN stripped
             ELSE IF Len(digits) >= width THEN digits
             ELSE ZFill(digits, width)

collapse_minus_one_at_a_time(filtered, normalised) ==
    IF Count(filtered, "-") > 1
    THEN LET first == Find(filtered, "-")
         IN  SubSeq(filtered, 1, first - 1) \o SubSeq(filtered, first + 1, Len(filtered))
    ELSE filtered

\* more than one "-": keep none, or a single leading one if the value
\* started with "-"
collapse_minus(filtered, normalised) ==
    IF Count(filtered, "-") > 1
    THEN (IF Head(normalised) = "-" THEN "-" ELSE "") \o Remove(filtered, {"-"})
    ELSE filtered

collapse_dots_keep_all(filtered) == filtered

\* more than one ".": keep the first one only
collapse_dots(filtered) ==
    IF Count(filtered, ".") > 1
    THEN LET first == Find(filtered, ".")
         IN  SubSeq(filtered, 1, first)
                 \o Remove(SubSeq(filtered, first + 1, Len(filtered)), {"."})
    ELSE filtered

clean_financial_value(value) ==
    IF value = "" THEN ""
    ELSE LET stripped == Strip(value)
             normalised == Remove(Remove(stripped, {" "}), {","})
             filtered0 == Keep(normalised, Digits \cup {".", "-"})
             filtered2 == collapse_dots(collapse_minus(filtered0, normalised))
         IN  IF stripped = "" \/ stripped = "..." THEN ""
             ELSE IF normalised = "" \/ AllIn(normalised, dash_chars) THEN ""
             ELSE IF NUMERIC_PATTERN(normalised) THEN normalised
             ELSE IF ~ \E i \in 1..Len(filtered0) : IsDigit(SubSeq(filtered0, i, i))
                  THEN ""
             ELSE filtered2

(***************************************************************************)
(* Canonical values and shared configuration.                              *)
(***************************************************************************)
ROW_TYPE_VALUES == <<"Data", "Header", "Total">>

ROW_LEVEL_VALUES ==
    <<"Major-Head", "Sub-Major-Head", "Minor-Head", "Sub-Head", "Detailed-Head",
      "Object-Head">>

VOTE_CHARGE_VALUES == <<"", "V", "C">>

FINANCIAL_COLUMNS ==
    <<"Accounts_2018_19", "Budget_2019_20", "Revised_2019_20", "Budget_2020_21">>

\* a sequence given as a function on 1..n, as a list
List(f) == SubSeq(f, 1, Len(f))

\* the elements of a sequence
Range(seq) == {seq[i] : i \in 1..Len(seq)}

\* canonical_map.get(key) of the dict {value.lower(): value}; a missing key
\* (None) and the empty canonical value are both falsy and both read ""
CanonicalGet(values, key) ==
    IF \E v \in Range(values) : Lower(v) = key
    THEN CHOOSE v \in Range(values) : Lower(v) = key
    ELSE ""

SUB_MAJOR_HEAD_SCHEMA ==
    <<"Source_Page_Number", "Volume_Number", "Demand_Number", "Major_Head_Code",
      "Major_Head_Name", "Sub_Major_Head_Code", "Sub_Major_Head_Name",
      "Full_Account_Code", "Description", "Vote_Charge_Marker", "Row_Type",
      "Row_Level", "Accounts_2018_19", "Budget_2019_20", "Revised_2019_20",
      "Budget_2020_21">>

MINOR_HEAD_SCHEMA ==
    <<"Source_Page_Number", "Volume_Number", "Demand_Number", "Major_Head_Code",
      "Major_Head_Name", "Sub_Major_Head_Code", "Sub_Major_Head_Name",
      "Minor_Head_Code", "Minor_Head_Name", "Full_Account_Code", "Description",
      "Vote_Charge_Marker", "Row_Type", "Row_Level", "Accounts_2018_19",
      "Budget_2019_20", "Revised_2019_20", "Budget_2020_21">>

SUB_HEAD_SCHEMA ==
    <<"Source_Page_Number", "Volume_Number", "Demand_Number", "Major_Head_Code",
      "Major_Head_Name", "Sub_Major_Head_Code", "Sub_Major_Head_Name",
      "Minor_Head_Code", "Minor_Head_Name", "Sub_Head_Code", "Sub_Head_Name",
      "Full_Account_Code", "Description", "Vote_Charge_Marker", "Row_Type",
      "Row_Level", "Accounts_2018_19", "Budget_2019_20", "Revised_2019_20",
      "Budget_2020_21">>

DETAILED_HEAD_SCHEMA ==
    <<"Source_Page_Number", "Volume_Number", "Demand_Number", "Major_Head_Code",
      "Major_Head_Name", "Sub_Major_Head_Code", "Sub_Major_Head_Name",
      "Minor_Head_Code", "Minor_Head_Name", "Sub_Head_Code", "Sub_Head_Name",
      "Detailed_Head_Code", "Detailed_Head_Name", "Full_Account_Code",
      "Description", "Vote_Charge_Marker", "Row_Type", "Row_Level",
      "Accounts_2018_19", "Budget_2019_20", "Revised_2019_20", "Budget_2020_21">>

OBJECT_HEAD_SCHEMA ==
    <<"Source_Page_Number", "Volume_Number", "Demand_Number", "Major_Head_Code",
      "Major_Head_Name", "Sub_Major_Head_Code", "Sub_Major_Head_Name",
      "Minor_Head_Code", "Minor_Head_Name", "Sub_Head_Code", "Sub_Head_Name",
      "Detailed_Head_Code", "Detailed_Head_Name", "Object_Head_Code",
      "Object_Head_Description", "Full_Account_Code", "Description",
      "Vote_Charge_Marker", "Row_Type", "Row_Level", "Accounts_2018_19",
      "Budget_2019_20", "Revised_2019_20", "Budget_2020_21">>

\* (folder, schema_name, schema), in the order main() walks them
CSV_TYPE_CONFIG ==
    << <<"sub_major_head_summary_csv", "sub_major_head", SUB_MAJOR_HEAD_SCHEMA>>,
       <<"minor_head_summary_csv", "minor_head", MINOR_HEAD_SCHEMA>>,
       <<"sub_head_summary_csv", "sub_head", SUB_HEAD_SCHEMA>>,
       <<"detailed_head_summary_csv", "detailed_head", DETAILED_HEAD_SCHEMA>>,
       <<"object_head_summary_csv", "object_head", OBJECT_HEAD_SCHEMA>> >>

SchemaNames == {CSV_TYPE_CONFIG[i][2] : i \in 1..Len(CSV_TYPE_CONFIG)}

\* the schema main() pairs with a schema name
Schema(sn) ==
    CASE sn = "sub_major_head" -> SUB_MAJOR_HEAD_SCHEMA
      [] sn = "minor_head" -> MINOR_HEAD_SCHEMA
      [] sn = "sub_head" -> SUB_HEAD_SCHEMA
      [] sn = "detailed_head" -> DETAILED_HEAD_SCHEMA
      [] sn = "object_head" -> OBJECT_HEAD_SCHEMA

\* expected widths of the code columns, in the dict's insertion order
CODE_RULES(sn) ==
    CASE sn = "sub_major_head" ->
           << <<"Major_Head_Code", 4>>, <<"Sub_Major_Head_Code", 2>> >>
      [] sn = "minor_head" ->
           << <<"Major_Head_Code", 4>>, <<"Sub_Major_Head_Code", 2>>,
              <<"Minor_Head_Code", 3>> >>
      [] sn = "sub_head" ->
           << <<"Major_Head_Code", 4>>, <<"Sub_Major_Head_Code", 2>>,
              <<"Minor_Head_Code", 3>>, <<"Sub_Head_Code", 1>> >>
      [] sn = "detailed_head" ->
           << <<"Major_Head_Code", 4>>, <<"Sub_Major_Head_Code", 2>>,
              <<"Minor_Head_Code", 3>>, <<"Sub_Head_Code", 1>>,
              <<"Detailed_Head_Code", 2>> >>
      [] sn = "object_head" ->
           << <<"Major_Head_Code", 4>>, <<"Sub_Major_Head_Code", 2>>,
              <<"Minor_Head_Code", 3>>, <<"Sub_Head_Code", 1>>,
              <<"Detailed_Head_Code", 2>>, <<"Object_Head_Code", 3>> >>
      [] OTHER -> << >>

\* (code column, level label), finest first
HIERARCHY_LEVELS(sn) ==
    CASE sn = "sub_major_head" ->
           << <<"Sub_Major_Head_Code", "Sub-Major-Head">>,
              <<"Major_Head_Code", "Major-Head">> >>
      [] sn = "minor_head" ->
           << <<"Minor_Head_Code", "Minor-Head">>,
              <<"Sub_Major_Head_Code", "Sub-Major-Head">>,
              <<"Major_Head_Code", "Major-Head">> >>
      [] sn = "sub_head" ->
           << <<"Sub_Head_Code", "Sub-Head">>,
              <<"Minor_Head_Code", "Minor-Head">>,
              <<"Sub_Major_Head_Code", "Sub-Major-Head">>,
              <<"Major_Head_Code", "Major-Head">> >>
      [] sn = "detailed_head" ->
           << <<"Detailed_Head_Code", "Detailed-Head">>,
              <<"Sub_Head_Code", "Sub-Head">>,
              <<"Minor_Head_Code", "Minor-Head">>,
              <<"Sub_Major_Head_Code", "Sub-Major-Head">>,
              <<"Major_Head_Code", "Major-Head">> >>
      [] sn = "object_head" ->
           << <<"Object_Head_Code", "Object-Head">>,
              <<"Detailed_Head_Code", "Detailed-Head">>,
              <<"Sub_Head_Code", "Sub-Head">>,
              <<"Minor_Head_Code", "Minor-Head">>,
              <<"Sub_Major_Head_Code", "Sub-Major-Head">>,
              <<"Major_Head_Code", "Major-Head">> >>
      [] OTHER -> << >>

(***************************************************************************)
(* RowProcessor.  Positions are 1-based here: column_index(sn, name) is    *)
(* the Python index plus one, and 0 stands for a column the schema lacks   *)
(* (None).  Positions written into issue messages are the Python ones.     *)
(***************************************************************************)
expected_cols(sn) == Len(Schema(sn))

column_index(sn, name) ==
    LET schema == Schema(sn)
    IN  IF \E i \in 1..Len(schema) : schema[i] = name
        THEN CHOOSE i \in 1..Len(schema) : schema[i] = name
        ELSE 0

code_fields(sn) == {CODE_RULES(sn)[i][1] : i \in 1..Len(CODE_RULES(sn))}

financial_indices(sn) ==
    {column_index(sn, col) : col \in {c \in Range(FINANCIAL_COLUMNS) : column_index(sn, c) # 0}}

row_type_idx(sn) == column_index(sn, "Row_Type")

row_level_idx(sn) == column_index(sn, "Row_Level")

vote_marker_idx(sn) == column_index(sn, "Vote_Charge_Marker")

description_idx(sn) == column_index(sn, "Description")

\* a variant of Issue that never records a repair
IssueNeverFixed(row_number, column, message, code, fixed, severity) ==
    [row_number |-> row_number, column |-> column, message |-> message,
     code |-> code, fixed |-> FALSE, severity |-> severity]

\* Issue(row_number, column, message, code, fixed=False, severity="error")
Issue(row_number, column, message, code, fixed, severity) ==
    [row_number |-> row_number, column |-> column, message |-> message,
     code |-> code, fixed |-> fixed, severity |-> severity]

\* HierarchyContext.__init__: no code remembered
create_context(sn) == [f \in code_fields(sn) |-> ""]

\* list.pop(idx)
Pop(row, idx) == SubSeq(row, 1, idx - 1) \o SubSeq(row, idx + 1, Len(row))

\* a variant of _preferred_drop_index that scans from the left
preferred_drop_index_leftmost(row) ==
    IF \E i \in 1..Len(row) : Strip(row[i]) = ""
    THEN CHOOSE i \in 1..Len(row) :
             /\ Strip(row[i]) = ""
             /\ \A j \in 1..(i - 1) : Strip(row[j]) # ""
    ELSE Len(row)

\* the rightmost empty or whitespace-only cell, else the last cell
preferred_drop_index(row) ==
    IF \E i \in 1..Len(row) : Strip(row[i]) = ""
    THEN CHOOSE i \in 1..Len(row) :
             /\ Strip(row[i]) = ""
             /\ \A j \in (i + 1)..Len(row) : Strip(row[j]) # ""
    ELSE Len(row)

\* a variant of the while loop that cuts the surplus cells off the end
AlignCut(sn, working, removed) ==
    IF Len(working) > expected_cols(sn)
    THEN [working |-> SubSeq(working, 1, expected_cols(sn)),
          removed |-> Append(removed, Len(working) - 1)]
    ELSE [working |-> working, removed |-> removed]

\* the while loop of _align_columns: [working, removed_positions]
RECURSIVE AlignDrop(_, _, _)
AlignDrop(sn, working, removed) ==
    IF Len(working) > expected_cols(sn)
    THEN LET drop_idx == preferred_drop_index(working)
         IN  AlignDrop(sn, Pop(working, drop_idx), Append(removed, drop_idx - 1))
    ELSE [working |-> working, removed |-> removed]

\* sorted() of a sequence of integers
RECURSIVE SortedInts(_)
SortedInts(seq) ==
    IF seq = << >> THEN << >>
    ELSE LET i == CHOOSE k \in 1..Len(seq) : \A j \in 1..Len(seq) : seq[k] <= seq[j]
         IN  <<seq[i]>> \o SortedInts(Pop(seq, i))

RECURSIVE BlanksOneShort(_)
BlanksOneShort(n) == IF n <= 1 THEN << >> ELSE <<"">> \o BlanksOneShort(n - 1)

\* [""] * n
RECURSIVE Blanks(_)
Blanks(n) == IF n <= 0 THEN << >> ELSE <<"">> \o Blanks(n - 1)

align_columns(sn, row, row_number) ==
    LET original_len == Len(row)
        dropped == AlignDrop(sn, row, << >>)
        deficit == expected_cols(sn) - Len(dropped.working)
        extra ==
            IF original_len > expected_cols(sn) /\ dropped.removed # << >>
            THEN << Issue(row_number, "ALL",
                          <<"Row had", original_len, "columns, expected",
                            expected_cols(sn), "Removed empty fields at positions",
                            SortedInts(dropped.removed)>>,
                          "EXTRA_COLUMNS_FIXED", TRUE, "error") >>
            ELSE IF original_len > expected_cols(sn)
            THEN << Issue(row_number, "ALL",
                          <<"Row had", original_len, "columns, expected",
                            expected_cols(sn), "Trimmed trailing field(s)",
                            original_len - expected_cols(sn)>>,
                          "EXTRA_COLUMNS_FIXED", TRUE, "error") >>
            ELSE << >>
        missing ==
            IF deficit > 0
            THEN << Issue(row_number, "ALL",
                          <<"Row had", original_len, "columns, expected",
                            expected_cols(sn), "Padded empty field(s) at end",
                            deficit>>,
                          "MISSING_COLUMNS_FIXED", TRUE, "error") >>
            ELSE << >>
    IN  [row |-> IF deficit > 0 THEN dropped.working \o Blanks(deficit)
                 ELSE dropped.working,
         changed |-> dropped.removed # << >> \/ deficit > 0,
         issues |-> extra \o missing]

normalise_cells(row) ==
    List([i \in 1..Len(row) |->
             LET cleaned_cell == Strip(row[i])
             IN  IF cleaned_cell = "..." THEN "" ELSE cleaned_cell])

clear_header_literals(sn, row) ==
    LET schema == Schema(sn)
    IN  List([i \in 1..Len(row) |->
                 IF row[i] # "" /\ Lower(Strip(row[i])) = Lower(schema[i])
                 THEN "" ELSE row[i]])

normalise_field(row, idx, values) ==
    IF idx = 0 \/ idx > Len(row) THEN row
    ELSE IF row[idx] = "" THEN row
    ELSE LET canonical == CanonicalGet(values, Lower(row[idx]))
         IN  IF canonical # "" /\ canonical # row[idx]
             THEN [row EXCEPT ![idx] = canonical]
             ELSE row

normalise_enums(sn, row) ==
    normalise_field(
        normalise_field(
            normalise_field(row, row_type_idx(sn), ROW_TYPE_VALUES),
            row_level_idx(sn), ROW_LEVEL_VALUES),
        vote_marker_idx(sn), VOTE_CHARGE_VALUES)

\* the scan window of _pull_enum_from_nearby
window == 2

Max(a, b) == IF a >= b THEN a ELSE b

Min(a, b) == IF a <= b THEN a ELSE b

\* a variant of _pull_enum_from_nearby that takes the last match of the window
pull_enum_from_nearby_last(row, idx, values) ==
    IF idx = 0 \/ idx > Len(row) THEN row
    ELSE IF row[idx] # "" THEN row
    ELSE LET hits == {pos \in Max(1, idx - window)..Min(Len(row), idx + window) :
                         /\ pos # idx
                         /\ row[pos] # ""
                         /\ CanonicalGet(values, Lower(row[pos])) # ""}
         IN  IF hits = {} THEN row
             ELSE LET pos == CHOOSE p \in hits : \A q \in hits : p >= q
                  IN  [row EXCEPT ![idx] = CanonicalGet(values, Lower(row[pos])),
                                  ![pos] = ""]

pull_enum_from_nearby(row, idx, values) ==
    IF idx = 0 \/ idx > Len(row) THEN row
    ELSE IF row[idx] # "" THEN row
    ELSE LET hits == {pos \in Max(1, idx - window)..Min(Len(row), idx + window) :
                         /\ pos # idx
                         /\ row[pos] # ""
                         /\ CanonicalGet(values, Lower(row[pos])) # ""}
         IN  IF hits = {} THEN row
             ELSE LET pos == CHOOSE p \in hits : \A q \in hits : p <= q
                  IN  [row EXCEPT ![idx] = CanonicalGet(values, Lower(row[pos])),
                                  ![pos] = ""]

pull_enums_from_nearby(sn, row) ==
    pull_enum_from_nearby(
        pull_enum_from_nearby(
            pull_enum_from_nearby(row, row_type_idx(sn), ROW_TYPE_VALUES),
            row_level_idx(sn), ROW_LEVEL_VALUES),
        vote_marker_idx(sn), VOTE_CHARGE_VALUES)

is_grand_total(sn, row) ==
    IF description_idx(sn) = 0 \/ description_idx(sn) > Len(row) THEN FALSE
    ELSE Upper(Strip(row[description_idx(sn)])) = "GRAND TOTAL"

\* a variant of inherit_codes that also overwrites the codes the row holds
inherit_codes_overwrites(sn, codes, row) ==
    LET schema == Schema(sn)
        fields == code_fields(sn)
    IN  List([i \in 1..Len(row) |->
                 IF schema[i] \in fields /\ codes[schema[i]] # ""
                 THEN codes[schema[i]]
                 ELSE row[i]])

\* HierarchyContext.inherit_codes: fill the empty code cells from the context
inherit_codes(sn, codes, row) ==
    LET schema == Schema(sn)
        fields == code_fields(sn)
    IN  List([i \in 1..Len(row) |->
                 IF /\ schema[i] \in fields
                    /\ row[i] = ""
                    /\ codes[schema[i]] # ""
                 THEN codes[schema[i]]
                 ELSE row[i]])

update_forgets(sn, codes, row) == codes

\* a variant of update that takes over the empty code cells of the row too
update_takes_blanks(sn, codes, row) ==
    [f \in code_fields(sn) |->
        IF column_index(sn, f) <= Len(row)
        THEN Strip(row[column_index(sn, f)])
        ELSE codes[f]]

\* HierarchyContext.update: remember every non-empty code of the row
update(sn, codes, row) ==
    [f \in code_fields(sn) |->
        IF column_index(sn, f) <= Len(row) /\ Strip(row[column_index(sn, f)]) # ""
        THEN Strip(row[column_index(sn, f)])
        ELSE codes[f]]

\* the level of the first pair of level_order whose field is one of present
FirstLevel(sn, present) ==
    LET order == HIERARCHY_LEVELS(sn)
        hits == {k \in 1..Len(order) : order[k][1] \in present}
    IN  IF hits = {} THEN ""
        ELSE order[CHOOSE k \in hits : \A j \in hits : k <= j][2]

\* HierarchyContext.infer_level
infer_level(sn, codes) ==
    FirstLevel(sn, {f \in DOMAIN codes : codes[f] # ""})

\* the width CODE_RULES gives a code field
CodeWidth(sn, f) ==
    CODE_RULES(sn)[CHOOSE k \in 1..Len(CODE_RULES(sn)) : CODE_RULES(sn)[k][1] = f][2]

pad_codes(sn, row) ==
    LET schema == Schema(sn)
        fields == code_fields(sn)
    IN  List([i \in 1..Len(row) |->
                 IF schema[i] \in fields
                 THEN pad_code(row[i], CodeWidth(sn, schema[i]))
                 ELSE row[i]])

clean_financial_columns(sn, row) ==
    LET indices == financial_indices(sn)
    IN  List([i \in 1..Len(row) |->
                 IF i \in indices THEN clean_financial_value(row[i])
                 ELSE row[i]])

infer_row_type_numbers_first(sn, row) ==
    IF row_type_idx(sn) = 0 \/ row_type_idx(sn) > Len(row) THEN row
    ELSE IF row[row_type_idx(sn)] \in Range(ROW_TYPE_VALUES) THEN row
    ELSE IF \E idx \in financial_indices(sn) : idx <= Len(row) /\ row[idx] # ""
         THEN [row EXCEPT ![row_type_idx(sn)] = "Data"]
    ELSE IF description_idx(sn) # 0 /\ description_idx(sn) <= Len(row)
            /\ Contains(Lower(row[description_idx(sn)]), "total")
         THEN [row EXCEPT ![row_type_idx(sn)] = "Total"]
    ELSE [row EXCEPT ![row_type_idx(sn)] = "Header"]

infer_row_type_overrides(sn, row) ==
    IF row_type_idx(sn) = 0 \/ row_type_idx(sn) > Len(row) THEN row
    ELSE IF description_idx(sn) # 0 /\ description_idx(sn) <= Len(row)
            /\ Contains(Lower(row[description_idx(sn)]), "total")
         THEN [row EXCEPT ![row_type_idx(sn)] = "Total"]
    ELSE IF row[row_type_idx(sn)] \in Range(ROW_TYPE_VALUES) THEN row
    ELSE IF \E idx \in financial_indices(sn) : idx <= Len(row) /\ row[idx] # ""
         THEN [row EXCEPT ![row_type_idx(sn)] = "Data"]
    ELSE [row EXCEPT ![row_type_idx(sn)] = "Header"]

infer_row_type(sn, row) ==
    IF row_type_idx(sn) = 0 \/ row_type_idx(sn) > Len(row) THEN row
    ELSE IF row[row_type_idx(sn)] \in Range(ROW_TYPE_VALUES) THEN row
    ELSE LET description ==
                 IF description_idx(sn) # 0 /\ description_idx(sn) <= Len(row)
                 THEN row[description_idx(sn)] ELSE ""
             has_numbers ==
                 \E idx \in financial_indices(sn) : idx <= Len(row) /\ row[idx] # ""
         IN  IF description # "" /\ Contains(Lower(description), "total")
             THEN [row EXCEPT ![row_type_idx(sn)] = "Total"]
             ELSE [row EXCEPT ![row_type_idx(sn)] =
                                   IF has_numbers THEN "Data" ELSE "Header"]

infer_level_from_codes(sn, row) ==
    FirstLevel(sn, {f \in Range(Schema(sn)) :
                       /\ column_index(sn, f) <= Len(row)
                       /\ row[column_index(sn, f)] # ""})

\* a variant of _infer_row_level that asks the context before the row's codes
infer_row_level_context_first(sn, row, hasContext, codes) ==
    IF row_level_idx(sn) = 0 \/ row_level_idx(sn) > Len(row) THEN row
    ELSE IF row[row_level_idx(sn)] \in Range(ROW_LEVEL_VALUES) THEN row
    ELSE IF hasContext /\ infer_level(sn, codes) # ""
         THEN [row EXCEPT ![row_level_idx(sn)] = infer_level(sn, codes)]
    ELSE IF infer_level_from_codes(sn, row) # ""
         THEN [row EXCEPT ![row_level_idx(sn)] = infer_level_from_codes(sn, row)]
    ELSE row

infer_row_level(sn, row, hasContext, codes) ==
    IF row_level_idx(sn) = 0 \/ row_level_idx(sn) > Len(row) THEN row
    ELSE IF row[row_level_idx(sn)] \in Range(ROW_LEVEL_VALUES) THEN row
    ELSE IF infer_level_from_codes(sn, row) # ""
         THEN [row EXCEPT ![row_level_idx(sn)] = infer_level_from_codes(sn, row)]
    ELSE IF hasContext /\ infer_level(sn, codes) # ""
         THEN [row EXCEPT ![row_level_idx(sn)] = infer_level(sn, codes)]
    ELSE row

\* a variant of the code checks of _validate that lets codes longer than the
\* width pass
ValidateCodeShortOnly(sn, row, row_number, k) ==
    LET f == CODE_RULES(sn)[k][1]
        width == CODE_RULES(sn)[k][2]
        idx == column_index(sn, f)
    IN  IF idx = 0 \/ idx > Len(row) THEN << >>
        ELSE IF row[idx] = "" THEN << >>
        ELSE IF ~ IsDigitStr(row[idx])
             THEN << Issue(row_number, f, <<f, "contains non-numeric characters", row[idx]>>,
                           Upper(f) \o "_NON_NUMERIC", FALSE, "error") >>
        ELSE IF Len(Keep(row[idx], Digits)) < width
             THEN << Issue(row_number, f,
                           <<f, "should be", width, "digits after padding, got",
                             Len(Keep(row[idx], Digits))>>,
                           Upper(f) \o "_WIDTH", FALSE, "error") >>
        ELSE << >>

\* the issues of _validate for the code field CODE_RULES(sn)[k]
ValidateCode(sn, row, row_number, k) ==
    LET f == CODE_RULES(sn)[k][1]
        width == CODE_RULES(sn)[k][2]
        idx == column_index(sn, f)
    IN  IF idx = 0 \/ idx > Len(row) THEN << >>
        ELSE IF row[idx] = "" THEN << >>
        ELSE IF ~ IsDigitStr(row[idx])
             THEN << Issue(row_number, f, <<f, "contains non-numeric characters", row[idx]>>,
                           Upper(f) \o "_NON_NUMERIC", FALSE, "error") >>
        ELSE IF Len(Keep(row[idx], Digits)) # width
             THEN << Issue(row_number, f,
                           <<f, "should be", width, "digits after padding, got",
                             Len(Keep(row[idx], Digits))>>,
                           Upper(f) \o "_WIDTH", FALSE, "error") >>
        ELSE << >>

RECURSIVE ValidateCodes(_, _, _, _)
ValidateCodes(sn, row, row_number, k) ==
    IF k > Len(CODE_RULES(sn)) THEN << >>
    ELSE ValidateCode(sn, row, row_number, k) \o ValidateCodes(sn, row, row_number, k + 1)

\* the issues of _validate for the financial columns from position idx on
RECURSIVE ValidateFinancial(_, _, _, _)
ValidateFinancial(sn, row, row_number, idx) ==
    IF idx > Len(row) THEN << >>
    ELSE (IF /\ Schema(sn)[idx] \in Range(FINANCIAL_COLUMNS)
             /\ row[idx] # ""
             /\ ~ NUMERIC_PATTERN(row[idx])
          THEN << Issue(row_number, Schema(sn)[idx],
                        <<Schema(sn)[idx], "must contain numeric data or be blank">>,
                        Upper(Schema(sn)[idx]) \o "_NON_NUMERIC", FALSE, "error") >>
          ELSE << >>)
         \o ValidateFinancial(sn, row, row_number, idx + 1)

validate(sn, row, row_number) ==
    LET row_type == IF row_type_idx(sn) # 0 THEN row[row_type_idx(sn)] ELSE ""
        row_level == IF row_level_idx(sn) # 0 THEN row[row_level_idx(sn)] ELSE ""
    IN  (IF row_type \notin Range(ROW_TYPE_VALUES)
         THEN << Issue(row_number, "Row_Type",
                       <<"Row_Type must be one of Data, Header, or Total">>,
                       "ROW_TYPE_INVALID", FALSE, "error") >>
         ELSE << >>)
        \o (IF row_level \notin Range(ROW_LEVEL_VALUES)
            THEN << Issue(row_number, "Row_Level",
                          <<"Row_Level must be a recognised hierarchy value">>,
                          "ROW_LEVEL_INVALID", FALSE, "error") >>
            ELSE << >>)
        \o ValidateCodes(sn, row, row_number, 1)
        \o ValidateFinancial(sn, row, row_number, 1)

\* the stages of process after _align_columns, in the order it calls them
STAGES ==
    <<"_normalise_cells", "_clear_header_literals", "_normalise_enums",
      "_pull_enums_from_nearby", "inherit_codes", "_pad_codes",
      "_clean_financial_columns", "_infer_row_type", "_infer_row_level">>

\* the row a stage of process leaves
Stage(name, sn, row, hasContext, codes) ==
    CASE name = "_normalise_cells" -> normalise_cells(row)
      [] name = "_clear_header_literals" -> clear_header_literals(sn, row)
      [] name = "_normalise_enums" -> normalise_enums(sn, row)
      [] name = "_pull_enums_from_nearby" -> pull_enums_from_nearby(sn, row)
      [] name = "inherit_codes" ->
           IF hasContext /\ is_grand_total(sn, row)
           THEN inherit_codes(sn, codes, row) ELSE row
      [] name = "_pad_codes" -> pad_codes(sn, row)
      [] name = "_clean_financial_columns" -> clean_financial_columns(sn, row)
      [] name = "_infer_row_type" -> infer_row_type(sn, row)
      [] name = "_infer_row_level" -> infer_row_level(sn, row, hasContext, codes)

\* changed |= stage(working): every stage reports a change exactly when the
\* row it leaves differs from the row it was given
Then(st, row) ==
    [st EXCEPT !.row = row, !.changed = @ \/ row # st.row]

\* the stages of process from the k-th on; st is [row, changed, issues]
RECURSIVE RunStages(_, _, _, _, _)
RunStages(sn, k, st, hasContext, codes) ==
    IF k > Len(STAGES) THEN st
    ELSE RunStages(sn, k + 1,
                   Then(st, Stage(STAGES[k], sn, st.row, hasContext, codes)),
                   hasContext, codes)

\* the end of process: validate, and the RowResult
RowResult(sn, row_number, st) ==
    [row_number |-> row_number,
     row |-> st.row,
     changed |-> st.changed,
     issues |-> st.issues \o validate(sn, st.row, row_number)]

\* RowProcessor.process; hasContext is false for context=None
process(sn, raw_row, row_number, hasContext, codes) ==
    RowResult(sn, row_number,
              RunStages(sn, 1, align_columns(sn, raw_row, row_number),
                        hasContext, codes))

(***************************************************************************)
(* FileReport.                                                             *)
(***************************************************************************)
\* FileReport(input_file=..., output_file=...): the output file has the
\* input file's name, so the report carries the name once
FileReport(name) ==
    [input_file |-> name, total_rows |-> 0, cleaned_rows |-> 0,
     rows_with_changes |-> 0, issues |-> << >>, header_replaced |-> FALSE]

add_row(report, row_result) ==
    [report EXCEPT !.total_rows = @ + 1,
                   !.cleaned_rows = @ + 1,
                   !.rows_with_changes = IF row_result.changed THEN @ + 1 ELSE @,
                   !.issues = @ \o row_result.issues]

\* issues_by_row().get(row_num, []): the issues of one row, in order
RowIssues(report, row_num) ==
    {k \in 1..Len(report.issues) : report.issues[k].row_number = row_num}

\* the keys of issues_by_row()
IssueRows(report) == {report.issues[k].row_number : k \in 1..Len(report.issues)}

rows_with_issues(report) == Cardinality({n \in IssueRows(report) : n > 0})

rows_without_errors(report) == report.cleaned_rows - rows_with_issues(report)

rows_with_errors_corrected(report) ==
    Cardinality({n \in IssueRows(report) :
                    \A k \in RowIssues(report, n) : report.issues[k].fixed})

rows_with_errors_uncorrected(report) ==
    Cardinality({n \in IssueRows(report) :
                    \E k \in RowIssues(report, n) : ~ report.issues[k].fixed})

issue_count(report) == Len(report.issues)

(***************************************************************************)
(* CleaningLogger.                                                         *)
(***************************************************************************)
\* str(n) for n >= 0
RECURSIVE Str(_)
Str(n) ==
    LET d == <<"0", "1", "2", "3", "4", "5", "6", "7", "8", "9">>
    IN  IF n < 10 THEN d[n + 1] ELSE Str(n \div 10) \o d[(n % 10) + 1]

\* int(s) for a string of decimal digits
RECURSIVE Int_(_)
Int_(s) ==
    IF s = "" THEN 0
    ELSE LET last == SubSeq(s, Len(s), Len(s))
             v == CHOOSE n \in 0..9 : Str(n) = last
         IN  10 * Int_(SubSeq(s, 1, Len(s) - 1)) + v

\* PAGE_PATTERN.search(name).group(1) for page[_-]?0*(\d+), case-insensitive;
\* "" when the pattern is not found
page_number(name) ==
    LET low == Lower(name)
        \* where the digits start if "page" starts at i
        after(i) == IF Slice(low, i + 4, i + 4) \in {"_", "-"} THEN i + 5 ELSE i + 4
        starts == {i \in 1..Len(low) :
                      /\ Slice(low, i, i + 3) = "page"
                      /\ IsDigit(Slice(low, after(i), after(i)))}
    IN  IF starts = {} THEN ""
        ELSE LET i == CHOOSE a \in starts : \A b \in starts : a <= b
                 j == after(i)
                 \* the run of digits that starts at j ends at e
                 e == CHOOSE k \in j..Len(low) :
                          /\ \A m \in j..k : IsDigit(Slice(low, m, m))
                          /\ ~ IsDigit(Slice(low, k + 1, k + 1))
                 \* 0* is greedy but leaves one digit to the group
                 z == CHOOSE k \in j..e :
                          /\ \A m \in j..(k - 1) : Slice(low, m, m) = "0"
                          /\ (k = e \/ Slice(low, k, k) # "0")
             IN  Slice(low, z, e)

\* the detailed entries record_file appends, from issue k on
RECURSIVE DetailedEntries(_, _, _)
DetailedEntries(csv_type, report, k) ==
    IF k > Len(report.issues) THEN << >>
    ELSE << [CSV_Type |-> csv_type,
             File_Name |-> report.input_file,
             Page_Number |-> page_number(report.input_file),
             Row_Number |-> report.issues[k].row_number,
             Error_Type |-> report.issues[k].code,
             Fixed |-> IF report.issues[k].fixed THEN "Yes" ELSE "No",
             Column |-> report.issues[k].column,
             Error_Message |-> report.issues[k].message] >>
         \o DetailedEntries(csv_type, report, k + 1)

\* the row-breakdown entries record_file appends: range(2, total_rows + 2)
RECURSIVE BreakdownEntries(_, _)
BreakdownEntries(report, row_num) ==
    IF row_num >= report.total_rows + 2 THEN << >>
    ELSE << [File_Name |-> report.input_file,
             Page_Number |-> page_number(report.input_file),
             Row_Number |-> Str(row_num),
             Has_Error |->
                 IF \E k \in RowIssues(report, row_num) : ~ report.issues[k].fixed
                 THEN "Yes" ELSE "No"] >>
         \o BreakdownEntries(report, row_num + 1)

\* sum(f(r) for r in reports)
RECURSIVE SumSeq(_)
SumSeq(seq) == IF seq = << >> THEN 0 ELSE Head(seq) + SumSeq(Tail(seq))

\* a list comprehension over the reports: per[k] is the value for reports[k]
Each(per) == List(per)

\* the codes of the unfixed issues of the reports, in order of appearance
RECURSIVE UnfixedCodes(_)
UnfixedCodes(reports_) ==
    IF reports_ = << >> THEN << >>
    ELSE LET iss == Head(reports_).issues
             RECURSIVE Codes(_)
             Codes(k) ==
                 IF k > Len(iss) THEN << >>
                 ELSE (IF iss[k].fixed THEN << >> ELSE <<iss[k].code>>) \o Codes(k + 1)
         IN  Codes(1) \o UnfixedCodes(Tail(reports_))

\* the distinct elements of a sequence, in order of first appearance
RECURSIVE Distinct(_)
Distinct(seq) ==
    IF seq = << >> THEN << >>
    ELSE LET front == Distinct(SubSeq(seq, 1, Len(seq) - 1))
             last == seq[Len(seq)]
         IN  IF last \in Range(front) THEN front ELSE Append(front, last)

\* sorted(pairs, key=count, reverse=True): stable, so ties keep their order
RECURSIVE SortByCountDesc(_)
SortByCountDesc(pairs) ==
    IF pairs = << >> THEN << >>
    ELSE LET i == CHOOSE k \in 1..Len(pairs) :
                      /\ \A j \in 1..Len(pairs) : pairs[k][2] >= pairs[j][2]
                      /\ \A j \in 1..(k - 1) : pairs[j][2] < pairs[k][2]
         IN  <<pairs[i]>> \o SortByCountDesc(Pop(pairs, i))

\* the Uncorrected_Error_Breakdown of a summary row, as (code, count) pairs
uncorrected_breakdown(reports_) ==
    LET codes == UnfixedCodes(reports_)
        keys == Distinct(codes)
    IN  SortByCountDesc(
            [k \in 1..Len(keys) |->
                <<keys[k], Cardinality({i \in 1..Len(codes) : codes[i] = keys[k]})>>])

\* the summary row of record_summary and record_overall_summary
summary_entry(csv_type, folder_name, reports_) ==
    LET n == Len(reports_)
    IN  [CSV_Type |-> csv_type,
         Folder |-> folder_name,
         Files_Processed |-> n,
         Total_Rows |->
             SumSeq(Each([k \in 1..n |-> reports_[k].cleaned_rows])),
         Rows_Without_Errors |->
             SumSeq(Each([k \in 1..n |-> rows_without_errors(reports_[k])])),
         Rows_With_Errors |->
             SumSeq(Each([k \in 1..n |-> rows_with_issues(reports_[k])])),
         Errors_Corrected |->
             SumSeq(Each([k \in 1..n |-> rows_with_errors_corrected(reports_[k])])),
         Errors_Uncorrected |->
             SumSeq(Each([k \in 1..n |-> rows_with_errors_uncorrected(reports_[k])])),
         Total_Issues |->
             SumSeq(Each([k \in 1..n |-> issue_count(reports_[k])])),
         Uncorrected_Error_Breakdown |-> uncorrected_breakdown(reports_)]

(***************************************************************************)
(* CSVFileProcessor.process_file.                                          *)
(***************************************************************************)
\* not any(cell.strip() for cell in raw_row)
IsBlankRow(raw_row) == \A i \in 1..Len(raw_row) : Strip(raw_row[i]) = ""

\* a variant of the loop body that remembers the codes of the last row only
keep_result_last_row_only(sn, acc, result) ==
    [cleaned_rows |-> Append(acc.cleaned_rows, result.row),
     report |-> add_row(acc.report, result),
     context |-> update(sn, create_context(sn), result.row)]

\* what the loop of process_file does with the RowResult of a row; acc is
\* [cleaned_rows, report, context]
keep_result(sn, acc, result) ==
    [cleaned_rows |-> Append(acc.cleaned_rows, result.row),
     report |-> add_row(acc.report, result),
     context |-> update(sn, acc.context, result.row)]

process_row_drops_flagged(sn, raw_row, row_number, acc) ==
    IF \E k \in 1..Len(process(sn, raw_row, row_number, TRUE, acc.context).issues) :
           ~ process(sn, raw_row, row_number, TRUE, acc.context).issues[k].fixed
    THEN [acc EXCEPT !.report =
             add_row(@, process(sn, raw_row, row_number, TRUE, acc.context))]
    ELSE keep_result(sn, acc, process(sn, raw_row, row_number, TRUE, acc.context))

\* the body of the loop of process_file for one row that is not blank
process_row(sn, raw_row, row_number, acc) ==
    keep_result(sn, acc, process(sn, raw_row, row_number, TRUE, acc.context))

RECURSIVE ProcessRowsDense(_, _, _, _)
ProcessRowsDense(sn, rows, row_number, acc) ==
    IF row_number > Len(rows) THEN acc
    ELSE IF IsBlankRow(rows[row_number])
         THEN ProcessRowsDense(sn, rows, row_number + 1, acc)
    ELSE ProcessRowsDense(sn, rows, row_number + 1,
                          process_row(sn, rows[row_number],
                                      acc.report.total_rows + 2, acc))

\* the loop of process_file over rows[1:], from the row numbered row_number on
RECURSIVE ProcessRows(_, _, _, _)
ProcessRows(sn, rows, row_number, acc) ==
    IF row_number > Len(rows) THEN acc
    ELSE IF IsBlankRow(rows[row_number])
         THEN ProcessRows(sn, rows, row_number + 1, acc)
    ELSE ProcessRows(sn, rows, row_number + 1,
                     process_row(sn, rows[row_number], row_number, acc))

empty_file_writes(name, ctx) ==
    [report |-> [FileReport(name) EXCEPT !.issues =
                    << Issue(0, "FILE", <<"File is empty">>, "EMPTY_FILE",
                             FALSE, "error") >>],
     written |-> TRUE, cleaned_rows |-> << >>, context |-> ctx]

\* process_file on a file without rows: the report, whether an output file
\* was written and its rows, and the context afterwards
empty_file(name, ctx) ==
    [report |-> [FileReport(name) EXCEPT !.issues =
                    << Issue(0, "FILE", <<"File is empty">>, "EMPTY_FILE",
                             FALSE, "error") >>],
     written |-> FALSE, cleaned_rows |-> << >>, context |-> ctx]

check_header_keeps(sn, name, header, ctx) ==
    [cleaned_rows |-> <<header>>, report |-> FileReport(name), context |-> ctx]

\* process_file before its loop: the header it will write and the report
\* it starts from
check_header(sn, name, header, ctx) ==
    IF header # Schema(sn)
    THEN [cleaned_rows |-> <<Schema(sn)>>,
          report |-> [FileReport(name) EXCEPT
                         !.header_replaced = TRUE,
                         !.issues = << Issue(1, "HEADER",
                                             <<"Header replaced with expected schema", sn>>,
                                             "HEADER_REPLACED", TRUE, "warning") >>],
          context |-> ctx]
    ELSE [cleaned_rows |-> <<header>>, report |-> FileReport(name), context |-> ctx]

\* process_file after its loop: _write_rows, and the report is returned
write_rows(acc) ==
    [report |-> acc.report, written |-> TRUE,
     cleaned_rows |-> acc.cleaned_rows, context |-> acc.context]

\* a variant of process_file that works on a context of its own
process_file_own_context(sn, name, rows, ctx) ==
    IF rows = << >> THEN empty_file(name, create_context(sn))
    ELSE write_rows(ProcessRows(sn, rows, 2,
                                check_header(sn, name, rows[1], create_context(sn))))

\* process_file on the rows _read_rows returned
process_file(sn, name, rows, ctx) ==
    IF rows = << >> THEN empty_file(name, ctx)
    ELSE write_rows(ProcessRows(sn, rows, 2, check_header(sn, name, rows[1], ctx)))

(***************************************************************************)
(* csv_combine_validated.                                                  *)
(***************************************************************************)
\* load_error_rows: the (filename, row number) pairs flagged in the
\* row-breakdown table
load_error_rows(breakdown) ==
    {<<breakdown[k].File_Name, Int_(breakdown[k].Row_Number)>> :
        k \in {j \in 1..Len(breakdown) :
                  /\ Lower(breakdown[j].Has_Error) = "yes"
                  /\ breakdown[j].File_Name # ""
                  /\ breakdown[j].Row_Number # ""}}

\* the inner loop of combine_csv_files over the rows of one file after its
\* header, from position k on; current_row_num is k itself
RECURSIVE CombineRows(_, _, _, _)
CombineRows(name, rows, k, errors) ==
    IF k > Len(rows) THEN << >>
    ELSE (IF IsBlankRow(rows[k]) \/ <<name, k>> \in errors
          THEN << >> ELSE <<rows[k]>>)
         \o CombineRows(name, rows, k + 1, errors)

\* the outer loop of combine_csv_files over the files of one directory
RECURSIVE CombineFiles(_, _)
CombineFiles(files, errors) ==
    IF files = << >> THEN << >>
    ELSE CombineRows(Head(files).name, Head(files).rows, 2, errors)
         \o CombineFiles(Tail(files), errors)

(***************************************************************************)
(* The inputs the model draws.                                             *)
(***************************************************************************)
\* a row of schema length with the given cells, the others empty
MkRow(sn, cells) ==
    LET schema == Schema(sn)
    IN  List([i \in 1..Len(schema) |->
                 IF schema[i] \in DOMAIN cells THEN cells[schema[i]] ELSE ""])

\* the raw data rows a file of the run may hold
DirRows(sn) ==
    { \* fully blank: whitespace only
      MkRow(sn, [Description |-> " "]),
      \* clean as it stands
      MkRow(sn, [Major_Head_Code |-> "2401", Sub_Major_Head_Code |-> "01",
                 Description |-> "Salaries",
                 Row_Type |-> "Data", Row_Level |-> "Major-Head",
                 Accounts_2018_19 |-> "12"]),
      \* a code without digits
      MkRow(sn, [Major_Head_Code |-> "abc", Description |-> "Rent"]),
      \* a Grand Total row, which carries no codes
      MkRow(sn, [Description |-> "Grand Total", Accounts_2018_19 |-> "99"]),
      \* one cell short, its code unpadded
      LET r == MkRow(sn, [Major_Head_Code |-> "7", Description |-> "Wages",
                          Row_Type |-> "data", Accounts_2018_19 |-> "1,234"])
      IN  SubSeq(r, 1, Len(r) - 1) }

\* the header rows a file of the run may start with
Headers(sn) == {Schema(sn), [Schema(sn) EXCEPT ![1] = "Page"]}

\* the sequences of at most n elements of S
SeqsUpTo(S, n) == UNION {[1..k -> S] : k \in 0..n}

\* what _read_rows may return for a file, with at most n data rows
FileContents(sn, n) ==
    {<< >>} \cup {<<h>> \o body : h \in Headers(sn), body \in SeqsUpTo(DirRows(sn), n)}

\* the k-th file of a directory in sorted order
FileName(k) == "page_000" \o Str(k) \o ".csv"

\* the folders of CSV_TYPE_CONFIG that exist under csv_outputs
ExistingFolders == {"sub_major_head_summary_csv", "minor_head_summary_csv"}

\* the financial cells drawn for clean_financial_value
FinAlphabet == {"1", "-", ".", ",", " ", "a", "~"}

RECURSIVE Strings(_, _)
Strings(alphabet, n) ==
    IF n = 0 THEN {""}
    ELSE LET shorter == Strings(alphabet, n - 1)
         IN  shorter \cup {c \o t : c \in alphabet, t \in {u \in shorter : Len(u) = n - 1}}

FinInputs == Strings(FinAlphabet, MaxFinLen)

\* n cells holding c
RECURSIVE Fill(_, _)
Fill(n, c) == IF n <= 0 THEN << >> ELSE <<c>> \o Fill(n - 1, c)

\* the rows of schema length drawn for RowProcessor.process
RowCells(sn) ==
    { MkRow(sn, [Major_Head_Code |-> m, Minor_Head_Code |-> n,
                 Description |-> d, Row_Type |-> t,
                 Row_Level |-> l, Accounts_2018_19 |-> a]) :
        m \in {"", "2401", "12a4", "7", "24011"},
        n \in {"", "101"},
        d \in {"Salaries", "Grand Total"},
        t \in {"", "data", "Foo"},
        l \in {"", "Major-Head", "Bar"},
        a \in {"12", "1-2", "", "~"} }

\* the raw rows drawn from a row of schema length: the row itself, the row
\* cut short, the row behind or ahead of surplus cells
Shapes(row) ==
    {SubSeq(row, 1, Len(row) - k) : k \in 0..MaxExtra}
        \cup {Fill(k, "") \o row : k \in 1..MaxExtra}
        \cup {row \o Fill(k, "x") : k \in 1..MaxExtra}

\* the raw rows drawn for a schema: the empty row, the shapes of the drawn
\* cells, and rows with surplus cells and no empty cell to drop
RawRows(sn) ==
    {<< >>}
        \cup UNION {Shapes(row) : row \in RowCells(sn)}
        \cup {Fill(expected_cols(sn) + k, "9") : k \in 1..MaxExtra}

\* the context process is called with: none, a fresh one, one that has seen
\* major head 2401, one that has seen a code at every level
RowContexts(sn) ==
    { [hasContext |-> FALSE, codes |-> create_context(sn)],
      [hasContext |-> TRUE, codes |-> create_context(sn)],
      [hasContext |-> TRUE,
       codes |-> [create_context(sn) EXCEPT !["Major_Head_Code"] = "2401"]],
      [hasContext |-> TRUE,
       codes |-> [f \in code_fields(sn) |-> pad_code("1", CodeWidth(sn, f))]] }

\* the calls of RowProcessor.process drawn
RowInputs(sn) ==
    { [sn |-> sn, raw_row |-> row, row_number |-> 2,
       hasContext |-> c.hasContext, codes |-> c.codes] :
        row \in RawRows(sn), c \in RowContexts(sn) }

(***************************************************************************)
(* State.                                                                  *)
(***************************************************************************)
VARIABLES
    pc,               \* where the run stands
    dir,              \* position in CSV_TYPE_CONFIG of main()'s loop
    context,          \* the HierarchyContext of the directory being processed
    reports,          \* process_directory's reports
    overall_reports,  \* main()'s overall_reports
    inputs,           \* the files read so far: [folder, name, rows]
    cleaned,          \* the files written under csv_cleaned: [folder, name, rows]
    entries,          \* CleaningLogger.entries
    row_breakdown,    \* CleaningLogger.row_breakdown
    summary_entries,  \* CleaningLogger.summary_entries
    error_rows,       \* the error_rows of csv_combine_validated.main()
    final,            \* the merged datasets written, by folder
    arg,              \* the argument of the function under test
    res               \* its result

vars ==
    <<pc, dir, context, reports, overall_reports, inputs, cleaned, entries,
      row_breakdown, summary_entries, error_rows, final, arg, res>>

runVars ==
    <<dir, context, reports, overall_reports, inputs, cleaned, entries,
      row_breakdown, summary_entries, error_rows, final>>

Folder(d) == CSV_TYPE_CONFIG[d][1]

SchemaName(d) == CSV_TYPE_CONFIG[d][2]

\* the data rows read so far
RowsRead == SumSeq(List([k \in 1..Len(inputs) |->
                            IF inputs[k].rows = << >> THEN 0
                            ELSE Len(inputs[k].rows) - 1]))

\* the files of a list that belong to a folder, in order
RECURSIVE InFolder(_, _)
InFolder(files, folder) ==
    IF files = << >> THEN << >>
    ELSE (IF Head(files).folder = folder THEN <<Head(files)>> ELSE << >>)
         \o InFolder(Tail(files), folder)

RunInit ==
    /\ dir = 1
    /\ context = << >>
    /\ reports = << >>
    /\ overall_reports = << >>
    /\ inputs = << >>
    /\ cleaned = << >>
    /\ entries = << >>
    /\ row_breakdown = << >>
    /\ summary_entries = << >>
    /\ error_rows = {}
    /\ final = << >>

Init ==
    /\ pc = "next_dir"
    /\ RunInit
    /\ arg = "none"
    /\ res = "none"

(***************************************************************************)
(* csv_cleaner.main() and CSVFileProcessor.process_directory.              *)
(***************************************************************************)
\* main(): the input directory of this schema does not exist
SkipDirectory ==
    /\ pc = "next_dir"
    /\ dir <= Len(CSV_TYPE_CONFIG)
    /\ Folder(dir) \notin ExistingFolders
    /\ dir' = dir + 1
    /\ UNCHANGED <<pc, context, reports, overall_reports, inputs, cleaned, entries,
                   row_breakdown, summary_entries, error_rows, final, arg, res>>

\* process_directory: the directory holds no CSV file, nothing is recorded
NoCsvFiles ==
    /\ pc = "next_dir"
    /\ dir <= Len(CSV_TYPE_CONFIG)
    /\ Folder(dir) \in ExistingFolders
    /\ dir' = dir + 1
    /\ UNCHANGED <<pc, context, reports, overall_reports, inputs, cleaned, entries,
                   row_breakdown, summary_entries, error_rows, final, arg, res>>

\* process_directory: the directory holds CSV files; one context is created
StartDirectory ==
    /\ pc = "next_dir"
    /\ dir <= Len(CSV_TYPE_CONFIG)
    /\ Folder(dir) \in ExistingFolders
    /\ Len(inputs) < MaxFiles
    /\ pc' = "in_dir"
    /\ context' = create_context(SchemaName(dir))
    /\ reports' = << >>
    /\ UNCHANGED <<dir, overall_reports, inputs, cleaned, entries, row_breakdown,
                   summary_entries, error_rows, final, arg, res>>

\* process_directory: one turn of the loop over the sorted files, that is
\* process_file and logger.record_file on the next file
ProcessFile ==
    /\ pc = "in_dir"
    /\ Len(inputs) < MaxFiles
    /\ \E rows \in FileContents(SchemaName(dir), MaxRows - RowsRead) :
       \E name \in {FileName(Len(reports) + 1)} :
       \E out \in {process_file(SchemaName(dir), name, rows, context)} :
           /\ inputs' = Append(inputs, [folder |-> Folder(dir), name |-> name,
                                        rows |-> rows])
           /\ context' = out.context
           /\ reports' = Append(reports, out.report)
           /\ cleaned' = IF out.written
                         THEN Append(cleaned, [folder |-> Folder(dir), name |-> name,
                                               rows |-> out.cleaned_rows])
                         ELSE cleaned
           /\ entries' = entries \o DetailedEntries(SchemaName(dir), out.report, 1)
           /\ row_breakdown' = row_breakdown \o BreakdownEntries(out.report, 2)
    /\ UNCHANGED <<pc, dir, overall_reports, summary_entries, error_rows, final,
                   arg, res>>

\* process_directory returns after its last file: record_summary, and main()
\* extends overall_reports
FinishDirectory ==
    /\ pc = "in_dir"
    /\ reports # << >>
    /\ summary_entries' =
           Append(summary_entries,
                  summary_entry(SchemaName(dir), Folder(dir), reports))
    /\ overall_reports' = overall_reports \o reports
    /\ context' = << >>
    /\ reports' = << >>
    /\ dir' = dir + 1
    /\ pc' = "next_dir"
    /\ UNCHANGED <<inputs, cleaned, entries, row_breakdown, error_rows, final,
                   arg, res>>

\* main() after its loop: record_overall_summary and logger.save()
FinishCleaning ==
    /\ pc = "next_dir"
    /\ dir > Len(CSV_TYPE_CONFIG)
    /\ summary_entries' =
           IF overall_reports = << >> THEN summary_entries
           ELSE Append(summary_entries, summary_entry("OVERALL", "ALL", overall_reports))
    /\ pc' = "cleaned"
    /\ UNCHANGED <<dir, context, reports, overall_reports, inputs, cleaned, entries,
                   row_breakdown, error_rows, final, arg, res>>

(***************************************************************************)
(* csv_combine_validated.main().                                           *)
(***************************************************************************)
\* combine_csv_files for one folder of csv_types: the merged dataset, or
\* nothing written when the folder has no file or no row is left
combine_csv_files(files, errors) ==
    LET combined_rows == CombineFiles(files, errors)
    IN  [written |-> files # << >> /\ combined_rows # << >>, rows |-> combined_rows]

\* main(): load the error rows of the latest row-breakdown table, then
\* combine every CSV type
CombineMain ==
    /\ pc = "cleaned"
    /\ error_rows' = load_error_rows(row_breakdown)
    /\ final' = [d \in 1..Len(CSV_TYPE_CONFIG) |->
                    combine_csv_files(InFolder(cleaned, Folder(d)),
                                      load_error_rows(row_breakdown))]
    /\ pc' = "combined"
    /\ UNCHANGED <<dir, context, reports, overall_reports, inputs, cleaned, entries,
                   row_breakdown, summary_entries, arg, res>>

Next ==
    \/ SkipDirectory
    \/ NoCsvFiles
    \/ StartDirectory
    \/ ProcessFile
    \/ FinishDirectory
    \/ FinishCleaning
    \/ CombineMain

Spec == Init /\ [][Next]_vars

(***************************************************************************)
(* clean_financial_value on its own.                                       *)
(***************************************************************************)
FinInit ==
    /\ pc = "call"
    /\ RunInit
    /\ arg \in FinInputs
    /\ res = "none"

CleanFinancialValue ==
    /\ pc = "call"
    /\ res' = clean_financial_value(arg)
    /\ pc' = "return"
    /\ UNCHANGED <<arg, dir, context, reports, overall_reports, inputs, cleaned,
                   entries, row_breakdown, summary_entries, error_rows, final>>

\* clean_financial_value(clean_financial_value(value)): the second call is
\* given the result of the first
CleanFinancialValueAgain ==
    /\ pc = "return"
    /\ arg' = res
    /\ res' = clean_financial_value(res)
    /\ pc' = "return_again"
    /\ UNCHANGED <<dir, context, reports, overall_reports, inputs, cleaned,
                   entries, row_breakdown, summary_entries, error_rows, final>>

FinNext == CleanFinancialValue \/ CleanFinancialValueAgain

SpecFin == FinInit /\ [][FinNext]_vars

(***************************************************************************)
(* RowProcessor.process on its own.                                        *)
(***************************************************************************)
RowInit ==
    /\ pc = "call_row"
    /\ RunInit
    /\ \E sn \in {"sub_major_head", "minor_head", "object_head"} :
           arg \in RowInputs(sn)
    /\ res = "none"

CallProcess ==
    /\ pc = "call_row"
    /\ res' = process(arg.sn, arg.raw_row, arg.row_number, arg.hasContext, arg.codes)
    /\ pc' = "return_row"
    /\ UNCHANGED <<arg, dir, context, reports, overall_reports, inputs, cleaned,
                   entries, row_breakdown, summary_entries, error_rows, final>>

\* process applied to the row it emitted, with the same row number and the
\* context as it was: res becomes the pair of the two results
CallProcessAgain ==
    /\ pc = "return_row"
    /\ res' = <<res, process(arg.sn, res.row, arg.row_number, arg.hasContext, arg.codes)>>
    /\ pc' = "return_row_again"
    /\ UNCHANGED <<arg, dir, context, reports, overall_reports, inputs, cleaned,
                   entries, row_breakdown, summary_entries, error_rows, final>>

RowNext == CallProcess \/ CallProcessAgain

SpecRow == RowInit /\ [][RowNext]_vars

(***************************************************************************)
(* pad_code on its own, applied once and then to its own result.           *)
(***************************************************************************)
\* the code cells drawn for pad_code
CodeAlphabet == {"0", "7", "a", " ", "."}

PadInputs ==
    {[value |-> v, width |-> w] : v \in Strings(CodeAlphabet, MaxCodeLen),
                                  w \in 1..MaxWidth}

PadInit ==
    /\ pc = "call_pad"
    /\ RunInit
    /\ arg \in PadInputs
    /\ res = << >>

\* pad_code(value, width)
PadCode ==
    /\ pc = "call_pad"
    /\ res' = <<pad_code(arg.value, arg.width)>>
    /\ pc' = "padded"
    /\ UNCHANGED <<arg, dir, context, reports, overall_reports, inputs, cleaned,
                   entries, row_breakdown, summary_entries, error_rows, final>>

\* pad_code(pad_code(value, width), width)
PadCodeAgain ==
    /\ pc = "padded"
    /\ res' = Append(res, pad_code(res[1], arg.width))
    /\ pc' = "padded_again"
    /\ UNCHANGED <<arg, dir, context, reports, overall_reports, inputs, cleaned,
                   entries, row_breakdown, summary_entries, error_rows, final>>

PadNext == PadCode \/ PadCodeAgain

SpecPad == PadInit /\ [][PadNext]_vars

(***************************************************************************)
(* _align_columns on its own, applied to rows of the 16-column archetype.  *)
(***************************************************************************)
\* the sets of at most k cell positions that are drawn blank
WithOneMore(sets, n) == sets \cup {s \cup {i} : s \in sets, i \in 1..n}

RECURSIVE BlankSets(_, _)
BlankSets(n, k) ==
    IF k = 0 THEN {{}} ELSE WithOneMore(BlankSets(n, k - 1), n)

\* a row of n cells: the cell at a position in blanks holds blank, every other
\* cell holds its own index as the source counts it
AlignRow(n, blanks, blank) ==
    List([i \in 1..n |-> IF i \in blanks THEN blank ELSE ToString(i - 1)])

\* the calls of _align_columns drawn for a schema: rows one cell short of it
\* up to MaxExtra cells over it, with at most MaxBlank empty or
\* whitespace-only cells
AlignInputs(sn) ==
    { [sn |-> sn, raw_row |-> AlignRow(n, blanks, blank), row_number |-> 2] :
        n \in (expected_cols(sn) - 1)..(expected_cols(sn) + MaxExtra),
        blanks \in BlankSets(expected_cols(sn) + MaxExtra, MaxBlank),
        blank \in {"", " "} }

AlignInit ==
    /\ pc = "call_align"
    /\ RunInit
    /\ arg \in AlignInputs("sub_major_head")
    /\ res = << >>

\* _align_columns(row, row_number)
AlignColumns ==
    /\ pc = "call_align"
    /\ res' = align_columns(arg.sn, arg.raw_row, arg.row_number)
    /\ pc' = "aligned"
    /\ UNCHANGED <<arg, dir, context, reports, overall_reports, inputs, cleaned,
                   entries, row_breakdown, summary_entries, error_rows, final>>

AlignNext == AlignColumns

SpecAlign == AlignInit /\ [][AlignNext]_vars

(***************************************************************************)
(* _pull_enum_from_nearby on its own, applied to rows of the 16-column     *)
(* archetype for each of the three enumerated fields.                      *)
(***************************************************************************)
\* the enumerated fields and their canonical values
EnumFields(sn) ==
    { [idx |-> row_type_idx(sn), values |-> ROW_TYPE_VALUES],
      [idx |-> row_level_idx(sn), values |-> ROW_LEVEL_VALUES],
      [idx |-> vote_marker_idx(sn), values |-> VOTE_CHARGE_VALUES] }

\* the non-empty canonical values, in order
RECURSIVE NonEmptyValues(_)
NonEmptyValues(values) ==
    IF values = << >> THEN << >>
    ELSE (IF Head(values) = "" THEN << >> ELSE <<Head(values)>>)
             \o NonEmptyValues(Tail(values))

\* the matching value drawn for the cell at pos: a canonical value in lower
\* case, a different one from one position to the next
DrawnMatch(values, pos) ==
    Lower(NonEmptyValues(values)[(pos % Len(NonEmptyValues(values))) + 1])

\* the rows drawn for a field: every cell within MaxReach positions of the
\* target is empty, holds a matching value or holds another value; the
\* target is empty or holds another value; the cells further away hold their
\* own index
PullRows(sn, field) ==
    { List([i \in 1..expected_cols(sn) |->
               IF i \in DOMAIN cells
               THEN (CASE cells[i] = "match" -> DrawnMatch(field.values, i)
                       [] cells[i] = "target" -> ""
                       [] OTHER -> cells[i])
               ELSE ToString(i - 1)]) :
        cells \in { c \in [(field.idx - MaxReach)..(field.idx + MaxReach)
                              -> {"", "zz", "match", "target"}] :
                        /\ c[field.idx] \in {"target", "zz"}
                        /\ \A i \in DOMAIN c : i # field.idx => c[i] # "target" } }

\* the calls of _pull_enum_from_nearby drawn for a schema
PullInputs(sn) ==
    UNION { { [row |-> row, idx |-> field.idx, values |-> field.values] :
                row \in PullRows(sn, field) } : field \in EnumFields(sn) }

PullInit ==
    /\ pc = "call_pull"
    /\ RunInit
    /\ arg \in PullInputs("sub_major_head")
    /\ res = << >>

\* _pull_enum_from_nearby(row, idx, canonical_map)
PullEnumFromNearby ==
    /\ pc = "call_pull"
    /\ res' = pull_enum_from_nearby(arg.row, arg.idx, arg.values)
    /\ pc' = "pulled"
    /\ UNCHANGED <<arg, dir, context, reports, overall_reports, inputs, cleaned,
                   entries, row_breakdown, summary_entries, error_rows, final>>

PullNext == PullEnumFromNearby

SpecPull == PullInit /\ [][PullNext]_vars

(***************************************************************************)
(* Vocabulary of the properties.                                           *)
(***************************************************************************)
\* the reports of the files read so far, in the order they were read
AllReports == overall_reports \o reports

\* the schema a folder is cleaned with
SchemaOf(folder) ==
    SchemaName(CHOOSE d \in 1..Len(CSV_TYPE_CONFIG) : Folder(d) = folder)

\* the positions in cleaned of the output written for the k-th file read
Written(k) ==
    {c \in 1..Len(cleaned) :
        cleaned[c].folder = inputs[k].folder /\ cleaned[c].name = inputs[k].name}

\* the output written for the k-th file read
CleanedOf(k) == cleaned[CHOOSE c \in Written(k) : TRUE]

\* the row numbers, from k on, of the rows of a file that are not fully
\* blank; the header is row 1
RECURSIVE DataRowNumbers(_, _)
DataRowNumbers(rows, k) ==
    IF k > Len(rows) THEN << >>
    ELSE (IF IsBlankRow(rows[k]) THEN << >> ELSE <<k>>) \o DataRowNumbers(rows, k + 1)

\* the row has an issue that was not fixed
HasUnfixed(report, row_num) ==
    \E i \in RowIssues(report, row_num) : ~ report.issues[i].fixed

\* a result of process carries an unfixed issue of this code
Reports(result, code) ==
    \E k \in 1..Len(result.issues) :
        result.issues[k].code = code /\ ~ result.issues[k].fixed

\* a result of process carries a fixed issue of this code
Repaired(result, code) ==
    \E k \in 1..Len(result.issues) :
        result.issues[k].code = code /\ result.issues[k].fixed

\* every file read so far lies in one archetype directory
OneDirectory ==
    \A j, k \in 1..Len(inputs) : inputs[j].folder = inputs[k].folder

(***************************************************************************)
(* C1                                                                      *)
(***************************************************************************)
\* C1: for a raw row of any length and any cells, process returns a row of
\* exactly len(schema) cells, and a row that was too short or too long is
\* reported by an issue of the result, which carries the row's number.
C1_ProcessAlwaysAligns ==
    pc = "return_row" =>
        /\ Len(res.row) = expected_cols(arg.sn)
        /\ res.row_number = arg.row_number
        /\ \A k \in 1..Len(res.issues) : res.issues[k].row_number = arg.row_number
        /\ Len(arg.raw_row) < expected_cols(arg.sn) =>
               Repaired(res, "MISSING_COLUMNS_FIXED")
        /\ Len(arg.raw_row) > expected_cols(arg.sn) =>
               Repaired(res, "EXTRA_COLUMNS_FIXED")
        /\ Len(arg.raw_row) # expected_cols(arg.sn) => res.changed

\* a row with surplus cells and no empty cell to drop has been processed
C1_SurplusRowProcessed ==
    /\ pc = "return_row"
    /\ Len(arg.raw_row) > expected_cols(arg.sn)
    /\ \A i \in 1..Len(arg.raw_row) : arg.raw_row[i] # ""
    /\ Len(res.row) = expected_cols(arg.sn)

(***************************************************************************)
(* C2                                                                      *)
(***************************************************************************)
\* the cleaned data rows of a file that carry no unfixed issue, in order;
\* numbers are the row numbers the cleaner processed, rows the file written
RECURSIVE RowsWithoutUnfixed(_, _, _, _)
RowsWithoutUnfixed(report, numbers, rows, j) ==
    IF j > Len(numbers) \/ j + 1 > Len(rows) THEN << >>
    ELSE (IF HasUnfixed(report, numbers[j]) THEN << >> ELSE <<rows[j + 1]>>)
         \o RowsWithoutUnfixed(report, numbers, rows, j + 1)

\* the rows the merged dataset of a folder should hold, from the k-th file
\* read on
RECURSIVE ExpectedMerged(_, _)
ExpectedMerged(folder, k) ==
    IF k > Len(inputs) THEN << >>
    ELSE (IF inputs[k].folder = folder /\ Written(k) # {}
          THEN RowsWithoutUnfixed(AllReports[k], DataRowNumbers(inputs[k].rows, 2),
                                  CleanedOf(k).rows, 1)
          ELSE << >>)
         \o ExpectedMerged(folder, k + 1)

\* C2: within one archetype directory, after cleaning and combining, the
\* merged dataset holds exactly the cleaned data rows without an unfixed
\* issue, also for files in which the cleaner skipped blank rows.
C2_MergedHoldsExactlyCleanRows ==
    (pc = "combined" /\ OneDirectory) =>
        \A d \in 1..Len(CSV_TYPE_CONFIG) :
            final[d].rows = ExpectedMerged(Folder(d), 1)

(***************************************************************************)
(* C3                                                                      *)
(***************************************************************************)
\* the row-breakdown entries recorded for a file
EntriesOf(name) == SelectSeq(row_breakdown, LAMBDA e : e.File_Name = name)

\* one entry per processed data row of the k-th file read, under the row's
\* own number
ExpectedEntries(k) ==
    LET numbers == DataRowNumbers(inputs[k].rows, 2)
    IN  [j \in 1..Len(numbers) |->
            [File_Name |-> inputs[k].name,
             Page_Number |-> page_number(inputs[k].name),
             Row_Number |-> Str(numbers[j]),
             Has_Error |-> IF HasUnfixed(AllReports[k], numbers[j])
                           THEN "Yes" ELSE "No"]]

\* C3: the row-breakdown table has exactly one entry per processed data row
\* of a file, with that row's own number, and Has_Error is Yes exactly when
\* the row has an unfixed issue, for any mix of blank and non-blank rows.
C3_BreakdownFollowsRows ==
    OneDirectory =>
        \A k \in 1..Len(inputs) : EntriesOf(inputs[k].name) = ExpectedEntries(k)

(***************************************************************************)
(* C4                                                                      *)
(***************************************************************************)
\* the k-th file read is page_0001 and ends in a row of major head 2401, the
\* next is page_0002 of the same directory and starts with a Grand Total row
\* without major head
PagesOfC4(k) ==
    LET first == inputs[k].rows
        second == inputs[k + 1].rows
        sn == SchemaOf(inputs[k].folder)
        major == column_index(sn, "Major_Head_Code")
    IN  /\ inputs[k].folder = inputs[k + 1].folder
        /\ inputs[k].name = "page_0001.csv"
        /\ inputs[k + 1].name = "page_0002.csv"
        /\ Len(first) >= 2
        /\ Len(first[Len(first)]) >= major
        /\ first[Len(first)][major] = "2401"
        /\ Len(second) >= 2
        /\ Len(second[2]) = expected_cols(sn)
        /\ second[2][major] = ""
        /\ second[2][description_idx(sn)] = "Grand Total"

\* the first data row written for the file read after the k-th has major
\* head 2401
InheritedC4(k) ==
    /\ Written(k + 1) # {}
    /\ Len(CleanedOf(k + 1).rows) >= 2
    /\ CleanedOf(k + 1).rows[2][column_index(SchemaOf(inputs[k].folder),
                                             "Major_Head_Code")] = "2401"

\* C4: when page_0001 ends in a row of major head 2401 and page_0002 of the
\* same directory starts with a Grand Total row without major head, the
\* first cleaned row of page_0002 has major head 2401.
C4_GrandTotalInheritsAcrossFiles ==
    \A k \in 1..(Len(inputs) - 1) : PagesOfC4(k) => InheritedC4(k)

\* such a pair of pages has been cleaned
C4_PagesCleaned ==
    \E k \in 1..(Len(inputs) - 1) : PagesOfC4(k) /\ InheritedC4(k)

(***************************************************************************)
(* C5                                                                      *)
(***************************************************************************)
\* C5: a major head code cell "12a4" (required width 4) yields an unfixed
\* MAJOR_HEAD_CODE_NON_NUMERIC issue and the cell is left as it was.
C5_NonNumericCodeReported ==
    (/\ pc = "return_row"
     /\ Len(arg.raw_row) = expected_cols(arg.sn)
     /\ arg.raw_row[column_index(arg.sn, "Major_Head_Code")] = "12a4") =>
        /\ Reports(res, "MAJOR_HEAD_CODE_NON_NUMERIC")
        /\ res.row[column_index(arg.sn, "Major_Head_Code")] = "12a4"

(***************************************************************************)
(* C6                                                                      *)
(***************************************************************************)
\* C6 as stated: clean_financial_value returns the empty string or a string
\* matching ^-?\d+(\.\d+)?$.
C6_ResultMatchesPattern ==
    pc = "return" => res = "" \/ NUMERIC_PATTERN(res)

\* C6, amended: clean_financial_value returns the empty string or a string
\* of digits, "-" and "." with at least one digit, at most one "-" and at
\* most one "."; a value that matches the pattern once whitespace and commas
\* are removed comes back as that match.
C6_ResultIsDigitsSignPoint ==
    pc = "return" =>
        /\ \/ res = ""
           \/ /\ AllIn(res, Digits \cup {"-", "."})
              /\ \E d \in Digits : Count(res, d) >= 1
              /\ Count(res, "-") <= 1
              /\ Count(res, ".") <= 1
        /\ NUMERIC_PATTERN(Remove(arg, {" ", ","})) => res = Remove(arg, {" ", ","})

\* a value was cleaned into one that does not match the pattern
C6_CleanedButNotNumeric ==
    /\ pc = "return"
    /\ res # ""
    /\ res # arg
    /\ ~ NUMERIC_PATTERN(res)

(***************************************************************************)
(* C7                                                                      *)
(***************************************************************************)
\* the cell holds a value that is no spelling of one of the values
InvalidEnum(cell, values) ==
    Strip(cell) # "" /\ CanonicalGet(values, Lower(Strip(cell))) = ""

\* C7: a Row_Type that is neither Data, Header nor Total in any casing is
\* reported by an unfixed ROW_TYPE_INVALID issue and not replaced, and an
\* invalid Row_Level by an unfixed ROW_LEVEL_INVALID issue and not replaced.
C7_InvalidEnumsReported ==
    (pc = "return_row" /\ Len(arg.raw_row) = expected_cols(arg.sn)) =>
        /\ InvalidEnum(arg.raw_row[row_type_idx(arg.sn)], ROW_TYPE_VALUES) =>
               /\ Reports(res, "ROW_TYPE_INVALID")
               /\ res.row[row_type_idx(arg.sn)] \notin Range(ROW_TYPE_VALUES)
        /\ InvalidEnum(arg.raw_row[row_level_idx(arg.sn)], ROW_LEVEL_VALUES) =>
               /\ Reports(res, "ROW_LEVEL_INVALID")
               /\ res.row[row_level_idx(arg.sn)] \notin Range(ROW_LEVEL_VALUES)

(***************************************************************************)
(* C8                                                                      *)
(***************************************************************************)
\* C8: reading a file without rows adds a report whose only issue is an
\* unfixed EMPTY_FILE at row 0, writes no output, leaves the hierarchy
\* context as it was, and leaves process_directory in its loop over files.
C8_EmptyFileReportedAndSkipped ==
    [][ (Len(inputs') = Len(inputs) + 1 /\ inputs'[Len(inputs')].rows = << >>) =>
            /\ Len(reports') = Len(reports) + 1
            /\ SubSeq(reports', 1, Len(reports)) = reports
            /\ Len(reports'[Len(reports')].issues) = 1
            /\ reports'[Len(reports')].issues[1].code = "EMPTY_FILE"
            /\ reports'[Len(reports')].issues[1].row_number = 0
            /\ ~ reports'[Len(reports')].issues[1].fixed
            /\ cleaned' = cleaned
            /\ context' = context
            /\ pc' = "in_dir" ]_vars

\* an empty file was read and the next file of the directory was cleaned
C8_FileAfterEmptyFileCleaned ==
    \E k \in 1..(Len(inputs) - 1) :
        /\ inputs[k].rows = << >>
        /\ Written(k) = {}
        /\ inputs[k + 1].folder = inputs[k].folder
        /\ inputs[k + 1].rows # << >>
        /\ Written(k + 1) # {}

(***************************************************************************)
(* C9                                                                      *)
(***************************************************************************)
\* the HEADER_REPLACED issues of a report
HeaderIssues(report) ==
    {i \in 1..Len(report.issues) : report.issues[i].code = "HEADER_REPLACED"}

\* C9: the first row written for a file with rows is the schema; a header
\* that differs from the schema leaves exactly one HEADER_REPLACED issue,
\* fixed, of severity warning, at row 1, and the data rows are still
\* processed; a header equal to the schema leaves none.
C9_HeaderIsSchema ==
    \A k \in 1..Len(inputs) :
        inputs[k].rows # << >> =>
            /\ Written(k) # {}
            /\ CleanedOf(k).rows[1] = Schema(SchemaOf(inputs[k].folder))
            /\ AllReports[k].total_rows = Len(DataRowNumbers(inputs[k].rows, 2))
            /\ IF inputs[k].rows[1] # Schema(SchemaOf(inputs[k].folder))
               THEN /\ Cardinality(HeaderIssues(AllReports[k])) = 1
                    /\ \A i \in HeaderIssues(AllReports[k]) :
                           /\ AllReports[k].issues[i].fixed
                           /\ AllReports[k].issues[i].severity = "warning"
                           /\ AllReports[k].issues[i].row_number = 1
                    /\ AllReports[k].header_replaced
               ELSE /\ HeaderIssues(AllReports[k]) = {}
                    /\ ~ AllReports[k].header_replaced

\* a file with a foreign header and a data row was cleaned
C9_ForeignHeaderReplaced ==
    \E k \in 1..Len(inputs) :
        /\ Len(inputs[k].rows) >= 2
        /\ inputs[k].rows[1] # Schema(SchemaOf(inputs[k].folder))
        /\ Written(k) # {}
        /\ Len(CleanedOf(k).rows) >= 2
        /\ CleanedOf(k).rows[1] = Schema(SchemaOf(inputs[k].folder))

(***************************************************************************)
(* C10                                                                     *)
(***************************************************************************)
\* C10: the data rows written for a file are, in order, the rows after the
\* header that are not fully blank, one for one, whatever issues they
\* raised; a written row is recognised by its description.
C10_DataRowsOneToOne ==
    \A k \in 1..Len(inputs) :
        inputs[k].rows # << >> =>
            /\ Written(k) # {}
            /\ Len(CleanedOf(k).rows) = Len(DataRowNumbers(inputs[k].rows, 2)) + 1
            /\ \A j \in 1..Len(DataRowNumbers(inputs[k].rows, 2)) :
                   CleanedOf(k).rows[j + 1][description_idx(SchemaOf(inputs[k].folder))]
                     = Strip(inputs[k].rows[DataRowNumbers(inputs[k].rows, 2)[j]]
                                 [description_idx(SchemaOf(inputs[k].folder))])

\* a file with a blank row and a row with an unfixed issue was cleaned
C10_FlaggedRowWritten ==
    \E k \in 1..Len(inputs) :
        /\ Written(k) # {}
        /\ \E n \in 2..Len(inputs[k].rows) : IsBlankRow(inputs[k].rows[n])
        /\ \E n \in 2..Len(inputs[k].rows) : HasUnfixed(AllReports[k], n)
        /\ Len(CleanedOf(k).rows) >= 2

(***************************************************************************)
(* C11                                                                     *)
(***************************************************************************)
\* the issues of a report lie on the header or on rows that are not blank,
\* one row processed per such row, and a row whose defect does not depend
\* on the context (a major head code without digits, a missing cell) has
\* its issue under its own position in the file
NumberedByPosition(k) ==
    LET rows == inputs[k].rows
        report == AllReports[k]
        sn == SchemaOf(inputs[k].folder)
        major == column_index(sn, "Major_Head_Code")
    IN  /\ report.total_rows = Len(DataRowNumbers(rows, 2))
        /\ \A i \in 1..Len(report.issues) :
               \/ report.issues[i].row_number = 1
               \/ report.issues[i].row_number \in Range(DataRowNumbers(rows, 2))
        /\ \A n \in 2..Len(rows) :
               /\ (Len(rows[n]) >= major /\ rows[n][major] = "abc") =>
                      \E i \in RowIssues(report, n) :
                          report.issues[i].code = "MAJOR_HEAD_CODE_NON_NUMERIC"
               /\ (rows[n] # << >> /\ Len(rows[n]) < expected_cols(sn)) =>
                      \E i \in RowIssues(report, n) :
                          report.issues[i].code = "MISSING_COLUMNS_FIXED"

\* reading a file whose rows after the header are all blank leaves the
\* context as it was and writes the header alone
BlankFileStep ==
    (/\ Len(inputs') = Len(inputs) + 1
     /\ inputs'[Len(inputs')].rows # << >>
     /\ DataRowNumbers(inputs'[Len(inputs')].rows, 2) = << >>) =>
        /\ context' = context
        /\ Len(cleaned') = Len(cleaned) + 1
        /\ Len(cleaned'[Len(cleaned')].rows) = 1
        /\ reports'[Len(reports')].total_rows = 0
        /\ \A i \in 1..Len(reports'[Len(reports')].issues) :
               reports'[Len(reports')].issues[i].row_number = 1

\* C11: a fully blank row is not processed, gives no output row and no
\* issue and does not touch the hierarchy context, yet it consumes a row
\* number: the issues of a processed row carry the row's position among the
\* rows of the file (header = 1), blank rows counted.
C11_BlankRowsSkippedButCounted ==
    /\ [](\A k \in 1..Len(inputs) : inputs[k].rows # << >> => NumberedByPosition(k))
    /\ [][BlankFileStep]_vars

\* a file in which a blank row precedes a row with a defect was cleaned, and
\* the defect is reported under the row's position
C11_DefectAfterBlankRow ==
    \E k \in 1..Len(inputs) :
        /\ Len(inputs[k].rows) >= 3
        /\ IsBlankRow(inputs[k].rows[2])
        /\ \E i \in RowIssues(AllReports[k], 3) : ~ AllReports[k].issues[i].fixed
        /\ RowIssues(AllReports[k], 2) = {}

(***************************************************************************)
(* C12                                                                     *)
(***************************************************************************)
\* the row numbers of the data rows processed for the k-th file read
ProcessedRows(k) == Range(DataRowNumbers(inputs[k].rows, 2))

\* C12: for every report, rows_without_errors() is the number of processed
\* data rows without an issue, rows_with_errors_corrected() the number with
\* issues that are all fixed, and rows_with_errors_uncorrected() the number
\* with an unfixed issue, also after a header replacement and for an empty
\* file.
C12_DerivedCountsCountDataRows ==
    \A k \in 1..Len(inputs) :
        /\ rows_without_errors(AllReports[k]) =
               Cardinality({n \in ProcessedRows(k) : RowIssues(AllReports[k], n) = {}})
        /\ rows_with_errors_corrected(AllReports[k]) =
               Cardinality({n \in ProcessedRows(k) :
                               /\ RowIssues(AllReports[k], n) # {}
                               /\ ~ HasUnfixed(AllReports[k], n)})
        /\ rows_with_errors_uncorrected(AllReports[k]) =
               Cardinality({n \in ProcessedRows(k) : HasUnfixed(AllReports[k], n)})

(***************************************************************************)
(* C13                                                                     *)
(***************************************************************************)
\* C13: pad_code applied to its own result, with the same width, returns
\* that result; and the result of pad_code has at least as many digits as
\* the value it was given.
C13_PadCodeIdempotent ==
    /\ pc = "padded_again" => res[2] = res[1]
    /\ pc \in {"padded", "padded_again"} =>
           Len(Keep(res[1], Digits)) >= Len(Keep(arg.value, Digits))

\* a code with a letter and too few digits was padded, twice
C13_ShortCodePadded ==
    /\ pc = "padded_again"
    /\ Count(arg.value, "a") >= 1
    /\ Len(Keep(arg.value, Digits)) >= 1
    /\ Len(res[1]) = arg.width
    /\ res[1] # arg.value

(***************************************************************************)
(* C14                                                                     *)
(***************************************************************************)
\* the row of a call of process after alignment, trimming, canonicalization
\* of the enumerated cells and neighbour recovery
Recovered(call) ==
    pull_enums_from_nearby(call.sn,
        normalise_enums(call.sn,
            clear_header_literals(call.sn,
                normalise_cells(
                    align_columns(call.sn, call.raw_row, call.row_number).row))))

\* a financial cell that holds a placeholder only
Placeholder(cell) ==
    \/ Strip(cell) = ""
    \/ Strip(cell) = "..."
    \/ AllIn(Strip(cell), dash_chars)

\* the Row_Type the description and the financial cells of a cleaned row
\* call for
TypeCalledFor(sn, row) ==
    IF Contains(Lower(row[description_idx(sn)]), "total") THEN "Total"
    ELSE IF \E idx \in financial_indices(sn) : row[idx] # "" THEN "Data"
    ELSE "Header"

\* C14: a row whose Row_Type is not canonical after canonicalization and
\* neighbour recovery gets Total if its description contains "total" in any
\* casing, else Data if a financial cell is non-empty after cleaning, else
\* Header; a row of placeholders only, without "total", gets Header.
C14_RowTypeInferred ==
    (pc = "return_row"
        /\ Recovered(arg)[row_type_idx(arg.sn)] \notin Range(ROW_TYPE_VALUES)) =>
        /\ res.row[row_type_idx(arg.sn)] = TypeCalledFor(arg.sn, res.row)
        /\ (/\ Len(arg.raw_row) = expected_cols(arg.sn)
            /\ \A idx \in financial_indices(arg.sn) : Placeholder(arg.raw_row[idx])
            /\ ~ Contains(Lower(arg.raw_row[description_idx(arg.sn)]), "total")) =>
               res.row[row_type_idx(arg.sn)] = "Header"

\* a row whose financial cells hold a dash glyph at most, and whose
\* description has no "total", was given Row_Type Header
C14_PlaceholderRowIsHeader ==
    /\ pc = "return_row"
    /\ Len(arg.raw_row) = expected_cols(arg.sn)
    /\ Recovered(arg)[row_type_idx(arg.sn)] \notin Range(ROW_TYPE_VALUES)
    /\ \E idx \in financial_indices(arg.sn) : arg.raw_row[idx] = "~"
    /\ \A idx \in financial_indices(arg.sn) : Placeholder(arg.raw_row[idx])
    /\ res.row[row_type_idx(arg.sn)] = "Header"

(***************************************************************************)
(* C15                                                                     *)
(***************************************************************************)
\* the positions, in the archetype's finest-to-coarsest order, of the
\* hierarchical fields that hold a code in the cleaned row
OwnLevels(sn, row) ==
    {k \in 1..Len(HIERARCHY_LEVELS(sn)) :
        row[column_index(sn, HIERARCHY_LEVELS(sn)[k][1])] # ""}

\* the positions of the hierarchical fields the context holds a code for
ContextLevels(sn, codes) ==
    {k \in 1..Len(HIERARCHY_LEVELS(sn)) : codes[HIERARCHY_LEVELS(sn)[k][1]] # ""}

\* the level label at the finest of a non-empty set of positions
Finest(sn, levels) ==
    HIERARCHY_LEVELS(sn)[CHOOSE k \in levels : \A j \in levels : k <= j][2]

ExtraColumnIssues(result) ==
    {k \in 1..Len(result.issues) : result.issues[k].code = "EXTRA_COLUMNS_FIXED"}

\* the alignment removed the cell the source counts as cell 10, kept every
\* other cell in order and recorded one fixed EXTRA_COLUMNS_FIXED issue
CellTenRemoved ==
    /\ res.row = Pop(arg.raw_row, 11)
    /\ Len(res.row) = 16
    /\ Cardinality(ExtraColumnIssues(res)) = 1
    /\ \A k \in ExtraColumnIssues(res) : res.issues[k].fixed

\* C16 as stated: a 17-cell row against the 16-column schema in which cell
\* index 10 is empty loses cell 10 and nothing else, with exactly one fixed
\* EXTRA_COLUMNS_FIXED issue.
C16_EmptyCellTenRemoved ==
    (/\ pc = "aligned"
     /\ expected_cols(arg.sn) = 16
     /\ Len(arg.raw_row) = 17
     /\ arg.raw_row[11] = "") => CellTenRemoved

\* C16 amended: a 17-cell row against the 16-column schema in which cell
\* index 10 is empty and no cell to its right is empty or whitespace-only
\* loses cell 10 and nothing else, with exactly one fixed EXTRA_COLUMNS_FIXED
\* issue.
C16_RightmostEmptyCellTenRemoved ==
    (/\ pc = "aligned"
     /\ expected_cols(arg.sn) = 16
     /\ Len(arg.raw_row) = 17
     /\ arg.raw_row[11] = ""
     /\ \A j \in 12..17 : Strip(arg.raw_row[j]) # "") => CellTenRemoved

\* a 17-cell row with empty cells at index 3 and index 10 and none to the
\* right of index 10 was aligned by removing cell 10
C16_CellTenRemovedLeftBlankKept ==
    /\ pc = "aligned"
    /\ expected_cols(arg.sn) = 16
    /\ Len(arg.raw_row) = 17
    /\ arg.raw_row[4] = ""
    /\ arg.raw_row[11] = ""
    /\ \A j \in 12..17 : Strip(arg.raw_row[j]) # ""
    /\ CellTenRemoved
    /\ res.row[4] = ""

(***************************************************************************)
(* C17                                                                     *)
(***************************************************************************)
\* the context of a call remembers a value for code field f
Remembered(call, f) == call.hasContext /\ call.codes[f] # ""

\* a row that stood as before when inheritance was due is a Grand Total row
GrandTotalRow(sn, before) ==
    Upper(Strip(before[description_idx(sn)])) = "GRAND TOTAL"

\* the code cells of the result of a call, given the row as it stood when
\* inheritance was due: on a row that is not a Grand Total row every code cell
\* is the row's own cell, padded; on a Grand Total row a non-empty code cell
\* is the row's own cell, padded, and an empty code cell holds the context's
\* value when the context remembers one
OnlyGrandTotalBlanksFilled(call, before, result) ==
    \A f \in code_fields(call.sn) :
        /\ ~ GrandTotalRow(call.sn, before) =>
               result.row[column_index(call.sn, f)] =
                   pad_code(before[column_index(call.sn, f)], CodeWidth(call.sn, f))
        /\ (GrandTotalRow(call.sn, before)
                /\ before[column_index(call.sn, f)] # "") =>
               result.row[column_index(call.sn, f)] =
                   pad_code(before[column_index(call.sn, f)], CodeWidth(call.sn, f))
        /\ (GrandTotalRow(call.sn, before)
                /\ before[column_index(call.sn, f)] = ""
                /\ Remembered(call, f)) =>
               result.row[column_index(call.sn, f)] = call.codes[f]
        /\ (before[column_index(call.sn, f)] = "" /\ ~ Remembered(call, f)) =>
               result.row[column_index(call.sn, f)] = ""

\* C17: inheritance touches only Grand Total rows and only empty cells: no
\* code cell of a row that is not a Grand Total row is filled from the
\* context, each empty code cell of a Grand Total row receives the value the
\* context remembers, and no non-empty code cell is overwritten.
C17_InheritanceOnlyFillsGrandTotalBlanks ==
    pc = "return_row" =>
        \E before \in {Recovered(arg)} : OnlyGrandTotalBlanksFilled(arg, before, res)

\* a Grand Total row with minor head 101 and no major head, processed under a
\* context that remembers a code at every level, kept its minor head and was
\* given the major head of the context
C17_GrandTotalBlankFilledCodeKept ==
    /\ pc = "return_row"
    /\ arg.sn = "minor_head"
    /\ Len(arg.raw_row) = expected_cols(arg.sn)
    /\ Upper(Strip(arg.raw_row[description_idx(arg.sn)])) = "GRAND TOTAL"
    /\ arg.raw_row[column_index(arg.sn, "Minor_Head_Code")] = "101"
    /\ arg.raw_row[column_index(arg.sn, "Major_Head_Code")] = ""
    /\ Remembered(arg, "Minor_Head_Code")
    /\ Remembered(arg, "Major_Head_Code")
    /\ arg.codes["Minor_Head_Code"] # "101"
    /\ res.row[column_index(arg.sn, "Minor_Head_Code")] = "101"
    /\ res.row[column_index(arg.sn, "Major_Head_Code")] = arg.codes["Major_Head_Code"]

(***************************************************************************)
(* C18                                                                     *)
(***************************************************************************)
\* the cleaned data rows of the files read so far in the directory being
\* cleaned, from the k-th file read on, in the order they were processed
RECURSIVE ProcessedInDirectory(_)
ProcessedInDirectory(k) ==
    IF k > Len(inputs) THEN << >>
    ELSE (IF inputs[k].folder = Folder(dir) /\ Written(k) # {}
          THEN Tail(CleanedOf(k).rows) ELSE << >>)
             \o ProcessedInDirectory(k + 1)

\* the cell at idx of the last of rows in which it is not empty, else ""
RECURSIVE LastSeen(_, _)
LastSeen(rows, idx) ==
    IF rows = << >> THEN ""
    ELSE IF rows[Len(rows)][idx] # "" THEN rows[Len(rows)][idx]
    ELSE LastSeen(SubSeq(rows, 1, Len(rows) - 1), idx)

\* C18: while a directory is cleaned, the context holds for each code field
\* the value of the most recently processed cleaned row of the directory in
\* which the field was not empty, across its files, and "" when there is no
\* such row; a row whose cell is empty leaves the field as it was.
C18_ContextHoldsLastSeenCodes ==
    pc = "in_dir" =>
        \E rows \in {ProcessedInDirectory(1)} :
            \A f \in code_fields(SchemaName(dir)) :
                context[f] = LastSeen(rows, column_index(SchemaName(dir), f))

\* two files of a directory were cleaned, the second one's last row without
\* a sub-major head, and the context still holds the sub-major head of the
\* first file next to the major head of the second
C18_CodeKeptAcrossFileAndBlankCell ==
    /\ pc = "in_dir"
    /\ Len(reports) = 2
    /\ Len(ProcessedInDirectory(1)) = 2
    /\ ProcessedInDirectory(1)[2][column_index(SchemaName(dir), "Sub_Major_Head_Code")] = ""
    /\ context["Sub_Major_Head_Code"] = "01"
    /\ context["Major_Head_Code"] = "abc"

(***************************************************************************)
(* C19                                                                     *)
(***************************************************************************)
\* the files read so far that lie in the directory being cleaned
ReadInDirectory == {k \in 1..Len(inputs) : inputs[k].folder = Folder(dir)}

\* the cleaned data rows written for the file read last
LastProcessed ==
    IF Written(Len(inputs)) = {} THEN << >> ELSE Tail(CleanedOf(Len(inputs)).rows)

\* one turn of the loop of process_directory: the next file in sorted order
\* was read, and its rows were folded in file order into the context the
\* files before it left
NextFileOnSameContext ==
    /\ Len(inputs') = Len(inputs) + 1
    /\ inputs'[Len(inputs')].folder = Folder(dir)
    /\ inputs'[Len(inputs')].name = FileName(Cardinality(ReadInDirectory) + 1)
    /\ \A f \in code_fields(SchemaName(dir)) :
           context'[f] =
               IF LastSeen(LastProcessed', column_index(SchemaName(dir), f)) # ""
               THEN LastSeen(LastProcessed', column_index(SchemaName(dir), f))
               ELSE context[f]

\* process_directory starts on a directory with a fresh, empty context
FreshContext ==
    /\ DOMAIN context' = code_fields(SchemaName(dir))
    /\ \A f \in code_fields(SchemaName(dir)) : context'[f] = ""

\* C19: process_directory creates one context per call and hands it to every
\* file, in sorted file name order: each file starts from the context the
\* files before it left, with all their rows folded in, and folds its own
\* rows in; the context is not reset between files, and another directory
\* starts from a fresh, empty context.
C19_OneContextPerDirectory ==
    [][/\ (pc = "in_dir" /\ pc' = "in_dir") => NextFileOnSameContext
       /\ (pc = "next_dir" /\ pc' = "in_dir") => FreshContext]_vars

\* the second file of a directory was cleaned on the context the first file
\* left: the context holds the sub-major head of the first file and the major
\* head of the second
C19_SecondFileOnContextOfFirst ==
    /\ pc = "in_dir"
    /\ Cardinality(ReadInDirectory) = 2
    /\ inputs[1].name = FileName(1)
    /\ inputs[2].name = FileName(2)
    /\ LastProcessed # << >>
    /\ LastSeen(LastProcessed, column_index(SchemaName(dir), "Sub_Major_Head_Code")) = ""
    /\ LastSeen(LastProcessed, column_index(SchemaName(dir), "Major_Head_Code")) = "0007"
    /\ context["Sub_Major_Head_Code"] = "01"
    /\ context["Major_Head_Code"] = "0007"

(***************************************************************************)
(* C20                                                                     *)
(***************************************************************************)
\* the cell is empty or holds whitespace only
BlankCell(cell) == Strip(cell) = ""

\* the row without its rightmost blank cell, or without its last cell when
\* no cell is blank
DropOne(row) ==
    IF \E i \in 1..Len(row) : BlankCell(row[i])
    THEN Pop(row, CHOOSE i \in 1..Len(row) :
                      /\ BlankCell(row[i])
                      /\ \A j \in (i + 1)..Len(row) : ~ BlankCell(row[j]))
    ELSE SubSeq(row, 1, Len(row) - 1)

\* the row after n such removals
RECURSIVE DropMany(_, _)
DropMany(row, n) == IF n = 0 THEN row ELSE DropMany(DropOne(row), n - 1)

\* the cells of row that are not blank, in order
RECURSIVE Contents(_)
Contents(row) ==
    IF row = << >> THEN << >>
    ELSE (IF BlankCell(Head(row)) THEN << >> ELSE <<Head(row)>>) \o Contents(Tail(row))

\* the number of blank cells of row
Blank(row) == Cardinality({i \in 1..Len(row) : BlankCell(row[i])})

\* C20: a raw row with more cells than the schema loses exactly
\* len(row) - len(schema) cells, each time the rightmost cell that is empty
\* or whitespace-only; cells with content are removed only when no blank cell
\* is left, and then from the end; the cells kept retain order and contents.
C20_SurplusDropsRightmostBlanks ==
    (pc = "aligned" /\ Len(arg.raw_row) > expected_cols(arg.sn)) =>
        /\ Len(res.row) = expected_cols(arg.sn)
        /\ res.row = DropMany(arg.raw_row, Len(arg.raw_row) - expected_cols(arg.sn))
        /\ Blank(arg.raw_row) >= Len(arg.raw_row) - expected_cols(arg.sn) =>
               /\ Contents(res.row) = Contents(arg.raw_row)
               /\ Blank(res.row) = Blank(arg.raw_row)
                                       - (Len(arg.raw_row) - expected_cols(arg.sn))
        /\ Blank(arg.raw_row) < Len(arg.raw_row) - expected_cols(arg.sn) =>
               res.row = SubSeq(Contents(arg.raw_row), 1, expected_cols(arg.sn))

\* a row two cells over the schema with one blank cell in its middle lost
\* that cell and its last cell
C20_BlankThenLastCellDropped ==
    /\ pc = "aligned"
    /\ Len(arg.raw_row) = expected_cols(arg.sn) + 2
    /\ Blank(arg.raw_row) = 1
    /\ BlankCell(arg.raw_row[5])
    /\ res.row = Pop(SubSeq(arg.raw_row, 1, Len(arg.raw_row) - 1), 5)

(***************************************************************************)
(* C21                                                                     *)
(***************************************************************************)
\* the position of the cell a removal takes: the rightmost blank cell, or the
\* last cell when no cell is blank
Taken(row) ==
    IF \E i \in 1..Len(row) : BlankCell(row[i])
    THEN CHOOSE i \in 1..Len(row) :
             /\ BlankCell(row[i])
             /\ \A j \in (i + 1)..Len(row) : ~ BlankCell(row[j])
    ELSE Len(row)

\* the indices, as the source counts them in the raw row, of the cells left
\* after n removals; row holds the cells left and at their raw indices
RECURSIVE KeptIndices(_, _, _)
KeptIndices(row, at, n) ==
    IF n = 0 THEN Range(at)
    ELSE KeptIndices(Pop(row, Taken(row)), Pop(at, Taken(row)), n - 1)

\* the indices in the raw row of the cells alignment dropped from it
DroppedIndices(row, n) ==
    (0..(Len(row) - 1)) \ KeptIndices(row, [i \in 1..Len(row) |-> i - 1], n)

\* the issues of an alignment that carry the code MISSING_COLUMNS_FIXED
MissingColumnIssues(result) ==
    {k \in 1..Len(result.issues) : result.issues[k].code = "MISSING_COLUMNS_FIXED"}

\* C21: alignment records exactly one fixed issue when the raw row's length
\* differs from the schema's and none when it is equal: EXTRA_COLUMNS_FIXED
\* for a longer row, MISSING_COLUMNS_FIXED naming the deficit for a shorter
\* one, never both; for a longer row the positions the issue names are the
\* indices in the raw row of the cells that were dropped.
C21_OneIssueNamingDroppedCells ==
    pc = "aligned" =>
        /\ \A k \in 1..Len(res.issues) : res.issues[k].fixed
        /\ Len(arg.raw_row) = expected_cols(arg.sn) => res.issues = << >>
        /\ Len(arg.raw_row) < expected_cols(arg.sn) =>
               /\ Len(res.issues) = 1
               /\ res.issues[1].code = "MISSING_COLUMNS_FIXED"
               /\ res.issues[1].message[6] = expected_cols(arg.sn) - Len(arg.raw_row)
        /\ Len(arg.raw_row) > expected_cols(arg.sn) =>
               /\ Len(res.issues) = 1
               /\ res.issues[1].code = "EXTRA_COLUMNS_FIXED"
               /\ Range(res.issues[1].message[6]) =
                      DroppedIndices(arg.raw_row,
                                     Len(arg.raw_row) - expected_cols(arg.sn))

(***************************************************************************)
(* C22                                                                     *)
(***************************************************************************)
\* the issues of a result that carry the given code for the given column
IssuesOf(result, column, code) ==
    {k \in 1..Len(result.issues) :
        result.issues[k].column = column /\ result.issues[k].code = code}

\* the string of n zeros
RECURSIVE Zeros(_)
Zeros(n) == IF n <= 0 THEN "" ELSE "0" \o Zeros(n - 1)

\* what the claim says of a code cell that held cell in the raw row, for a
\* field of the given width: with more digits than the width all digits are
\* kept and one unfixed width issue is raised; with fewer, the digits are
\* left-padded with zeros to the width and no width issue is raised
PaddedNotTruncated(result, f, cell, padded, width) ==
    /\ Len(Keep(cell, Digits)) > width =>
           /\ Keep(padded, Digits) = Keep(cell, Digits)
           /\ Cardinality(IssuesOf(result, f, Upper(f) \o "_WIDTH")) = 1
           /\ \A k \in IssuesOf(result, f, Upper(f) \o "_WIDTH") :
                  ~ result.issues[k].fixed
    /\ (Keep(cell, Digits) # "" /\ Len(Keep(cell, Digits)) < width) =>
           /\ padded = Zeros(width - Len(Keep(cell, Digits))) \o Keep(cell, Digits)
           /\ IssuesOf(result, f, Upper(f) \o "_WIDTH") = {}

MatchesEnum(values, cell) ==
    cell # "" /\ \E v \in Range(values) : Lower(v) = Lower(cell)

\* the canonical spelling of a matching cell
Spelling(values, cell) == CHOOSE v \in Range(values) : Lower(v) = Lower(cell)

\* the positions other than idx, at most 2 columns from it, whose cell matches
NearMatches(row, idx, values) ==
    {p \in 1..Len(row) :
        /\ p # idx
        /\ p >= idx - 2
        /\ p <= idx + 2
        /\ MatchesEnum(values, row[p])}

\* the row out is row with the cell at from moved, in its canonical
\* spelling, to idx
MovedFrom(row, out, idx, from, values) ==
    /\ Len(out) = Len(row)
    /\ out[idx] = Spelling(values, row[from])
    /\ out[from] = ""
    /\ \A q \in 1..Len(row) : (q # idx /\ q # from) => out[q] = row[q]

\* C23: enum recovery moves nothing when the target cell is not empty; when
\* it is empty and a cell within 2 positions matches the field's canonical
\* table case-insensitively, the target receives the canonical spelling of
\* the lowest-index such cell, that cell becomes empty and every other cell
\* is unchanged; cells more than 2 positions away are never used.
C23_EnumPulledFromLowestNearMatch ==
    pc = "pulled" =>
        /\ arg.row[arg.idx] # "" => res = arg.row
        /\ (arg.row[arg.idx] = "" /\ NearMatches(arg.row, arg.idx, arg.values) = {}) =>
               res = arg.row
        /\ (arg.row[arg.idx] = "" /\ NearMatches(arg.row, arg.idx, arg.values) # {}) =>
               \E from \in NearMatches(arg.row, arg.idx, arg.values) :
                   /\ \A q \in NearMatches(arg.row, arg.idx, arg.values) : from <= q
                   /\ MovedFrom(arg.row, res, arg.idx, from, arg.values)

\* an empty Row_Type cell with matching cells 3 and 1 positions to its left
\* and 2 to its right received the value 1 position to its left
C23_NearerOfThreeMatchesPulled ==
    /\ pc = "pulled"
    /\ arg.values = ROW_TYPE_VALUES
    /\ arg.row[arg.idx] = ""
    /\ MatchesEnum(arg.values, arg.row[arg.idx - 3])
    /\ NearMatches(arg.row, arg.idx, arg.values) = {arg.idx - 1, arg.idx + 2}
    /\ MovedFrom(arg.row, res, arg.idx, arg.idx - 1, arg.values)
    /\ res[arg.idx] # arg.row[arg.idx - 1]

(***************************************************************************)
(* C24                                                                     *)
(***************************************************************************)
\* s ends with suffix
EndsWith(s, suffix) ==
    Len(s) >= Len(suffix) /\ SubSeq(s, Len(s) - Len(suffix) + 1, Len(s)) = suffix

\* the issue comes from column alignment or from header replacement
FromRepair(issue) ==
    issue.code \in {"EXTRA_COLUMNS_FIXED", "MISSING_COLUMNS_FIXED", "HEADER_REPLACED"}

\* the issue comes from validation or reports an empty file
FromValidation(issue) ==
    \/ EndsWith(issue.code, "_INVALID")
    \/ EndsWith(issue.code, "_NON_NUMERIC")
    \/ EndsWith(issue.code, "_WIDTH")
    \/ issue.code = "EMPTY_FILE"

ConsistentCounts(entry) ==
    /\ entry.Total_Rows >= 0
    /\ entry.Rows_Without_Errors >= 0
    /\ entry.Rows_With_Errors >= 0
    /\ entry.Errors_Corrected >= 0
    /\ entry.Errors_Uncorrected >= 0
    /\ entry.Rows_With_Errors = entry.Errors_Corrected + entry.Errors_Uncorrected
    /\ entry.Total_Rows = entry.Rows_Without_Errors + entry.Errors_Corrected
                              + entry.Errors_Uncorrected

\* C25: in every summary row of record_summary and record_overall_summary,
\* over any reports (of empty files and of files with a replaced header too),
\* all row counts are non-negative, Rows_With_Errors = Errors_Corrected +
\* Errors_Uncorrected and Total_Rows = Rows_Without_Errors + Errors_Corrected
\* + Errors_Uncorrected.
C25_SummaryCountsConsistent ==
    \A k \in 1..Len(summary_entries) : ConsistentCounts(summary_entries[k])

(***************************************************************************)
(* C26                                                                     *)
(***************************************************************************)
\* the row-breakdown entries recorded for the files of a folder, from the
\* k-th file read on
RECURSIVE BreakdownOf(_, _)
BreakdownOf(folder, k) ==
    IF k > Len(inputs) THEN << >>
    ELSE (IF inputs[k].folder = folder
          THEN BreakdownEntries(AllReports[k], 2) ELSE << >>)
             \o BreakdownOf(folder, k + 1)

\* the merged dataset of a folder when only the rows flagged in that folder's
\* own files are excluded
MergedOnOwnIssues(folder) ==
    CombineFiles(InFolder(cleaned, folder), load_error_rows(BreakdownOf(folder, 1)))

\* C26: exclusion is isolated per archetype: an unfixed issue on a row of a
\* file of one archetype's directory never excludes a row of a file of
\* another archetype's directory from that archetype's merged dataset, also
\* when the two files have the same name.
C26_ExclusionIsolatedPerArchetype ==
    pc = "combined" =>
        \A d \in 1..Len(CSV_TYPE_CONFIG) :
            final[d].rows = MergedOnOwnIssues(Folder(d))

(***************************************************************************)
(* C27                                                                     *)
(***************************************************************************)
\* the position, in the archetype's finest-to-coarsest order, of the level
\* infer_level returns for the codes, and one past the coarsest when it
\* returns none
LevelRank(sn, codes) ==
    IF ContextLevels(sn, codes) = {} THEN Len(HIERARCHY_LEVELS(sn)) + 1
    ELSE CHOOSE k \in ContextLevels(sn, codes) :
             \A j \in ContextLevels(sn, codes) : k <= j

\* a step of the directory pass keeps every remembered code non-empty and
\* leaves the level of the context as fine as it was or finer
ContextOnlyGrows ==
    (pc = "in_dir" /\ pc' = "in_dir") =>
        /\ \A f \in code_fields(SchemaName(dir)) :
               context[f] # "" => context'[f] # ""
        /\ LevelRank(SchemaName(dir), context') <= LevelRank(SchemaName(dir), context)
        /\ infer_level(SchemaName(dir), context) # "" =>
               infer_level(SchemaName(dir), context') # ""

\* C27: once the context has remembered a non-empty value for a field, the
\* field never returns to empty for the rest of the directory pass, and the
\* level infer_level returns never becomes coarser than one it returned
\* earlier.
C27_ContextNeverForgets ==
    [][ContextOnlyGrows]_vars

\* after a file that set the sub-major head, a second file whose row has a
\* major head only was cleaned, and the level of the context is still
\* Sub-Major-Head
C27_LevelStaysFineAfterCoarserRow ==
    /\ pc = "in_dir"
    /\ SchemaName(dir) = "sub_major_head"
    /\ Cardinality(ReadInDirectory) = 2
    /\ LastProcessed # << >>
    /\ \A r \in 1..Len(LastProcessed) :
           /\ LastProcessed[r][column_index(SchemaName(dir), "Sub_Major_Head_Code")] = ""
           /\ LastProcessed[r][column_index(SchemaName(dir), "Major_Head_Code")] # ""
    /\ infer_level(SchemaName(dir), context) = "Sub-Major-Head"


(***************************************************************************)
(* C28                                                                     *)
(***************************************************************************)
\* the cell of a raw row at a column matches one of the canonical values once
\* trimmed, and the emitted row has the canonical spelling there
ExplicitValueKept(call, result, idx, values) ==
    MatchesEnum(values, Strip(call.raw_row[idx])) =>
        result.row[idx] = Spelling(values, Strip(call.raw_row[idx]))

\* C28: when a raw row of schema length has a Row_Type (Row_Level) cell that,
\* trimmed, matches a canonical value whatever its case, the emitted row has
\* exactly that canonical spelling in the cell, whatever the description, the
\* financial cells, the codes, the neighbouring cells and the context hold.
C28_ExplicitEnumValueNeverOverridden ==
    (pc = "return_row" /\ Len(arg.raw_row) = expected_cols(arg.sn)) =>
        /\ ExplicitValueKept(arg, res, row_type_idx(arg.sn), ROW_TYPE_VALUES)
        /\ ExplicitValueKept(arg, res, row_level_idx(arg.sn), ROW_LEVEL_VALUES)

\* a Grand Total row with amounts and a minor head code, under a context, was
\* written as "data" at Major-Head, and came out as Data at Major-Head
C28_DataKeptOnGrandTotalRow ==
    /\ pc = "return_row"
    /\ arg.sn = "minor_head"
    /\ arg.hasContext
    /\ Len(arg.raw_row) = expected_cols(arg.sn)
    /\ arg.raw_row[row_type_idx(arg.sn)] = "data"
    /\ arg.raw_row[row_level_idx(arg.sn)] = "Major-Head"
    /\ Contains(Lower(arg.raw_row[description_idx(arg.sn)]), "total")
    /\ arg.raw_row[column_index(arg.sn, "Minor_Head_Code")] # ""
    /\ \E idx \in financial_indices(arg.sn) : Strip(arg.raw_row[idx]) # ""
    /\ res.row[row_type_idx(arg.sn)] = "Data"
    /\ res.row[row_level_idx(arg.sn)] = "Major-Head"


(***************************************************************************)
(* C29                                                                     *)
(***************************************************************************)
\* C29: clean_financial_value applied to its own result returns that result.
C29_CleanFinancialValueIdempotent ==
    pc = "return_again" => res = arg

\* a result that is not a number in the pattern's sense (it kept a "-" after
\* a digit) was cleaned a second time
C29_OddResultCleanedAgain ==
    /\ pc = "return_again"
    /\ arg # ""
    /\ ~ NUMERIC_PATTERN(arg)
    /\ Count(arg, "-") = 1
    /\ Head(arg) # "-"
    /\ res = arg


(***************************************************************************)
(* C30                                                                     *)
(***************************************************************************)
NotFixed(issue) == ~ issue.fixed

\* the unfixed issues of a result, in order
Unfixed(result) == SelectSeq(result.issues, NotFixed)

\* the second result repeats the first: same row, nothing changed, nothing
\* repaired, the same unfixed issues
SecondPassRepeats(first, second) ==
    /\ second.row = first.row
    /\ second.changed = FALSE
    /\ Unfixed(second) = second.issues
    /\ Unfixed(second) = Unfixed(first)

\* C30: a row emitted by process, passed through process again with the
\* context in the same state, comes back as the same row with changed false,
\* no fixed issue, and the unfixed issues of the first pass.
C30_ProcessIdempotent ==
    pc = "return_row_again" => SecondPassRepeats(res[1], res[2])

\* a short row that the first pass padded, changed and flagged was passed
\* through again
C30_RepairedRowProcessedAgain ==
    /\ pc = "return_row_again"
    /\ Len(arg.raw_row) < expected_cols(arg.sn)
    /\ res[1].changed
    /\ res[1].row # arg.raw_row
    /\ res[1].issues # Unfixed(res[1])
    /\ Unfixed(res[1]) # << >>
    /\ res[2].row = res[1].row
    /\ res[2].issues = Unfixed(res[1])

=============================================================================
